---- MODULE Spec2Model ----
(***************************************************************************)
(* A model of ocpipe: the Predict correction state machine                 *)
(* (Predict.execute, repairJson, correctFields), the response parsing and  *)
(* JSON Patch functions it calls, and the Pipeline step executor           *)
(* (Pipeline.run) with its retry loop and checkpoints.                     *)
(*                                                                         *)
(* Text.  A JavaScript string is a sequence of atoms.  The structural      *)
(* characters the code inspects are atoms of their own (braces, brackets,  *)
(* quote, comma, colon, slash, tilde, dot, blank), a code fence (three     *)
(* backticks) is the one atom FENCE, the double quote is the atom DQ, and  *)
(* a run of letters or of digits is one atom.  String escapes (backslash)  *)
(* are not part of the alphabet.                                           *)
(*                                                                         *)
(* JSON values.  A value is a finite map from paths to nodes, the empty    *)
(* path being the root; a path is a sequence of keys, a key is a string,   *)
(* array elements have the keys "0", "1", ...                              *)
(***************************************************************************)
EXTENDS Integers, Sequences, FiniteSets, TLC

DQ == "QUOTE"
FENCE == "FENCE"
WS == " "
LBRACE == "{"
RBRACE == "}"
LBRACK == "["
RBRACK == "]"
COMMA == ","
COLON == ":"
SLASH == "/"
TILDE == "~"
DOT == "."
DOLLAR == "$"
ATSIGN == "@"
BACKTICK == "BACKTICK"
LPAREN == "("
RPAREN == ")"

\* Atoms that are runs of digits: what JSON reads as a number and what
\* /^\d+$/ accepts.  DigitAtoms[k+1] is the decimal text of k.
DigitAtoms == <<"0", "1", "2", "3", "4", "5", "6", "7", "8", "9">>
NumAtoms == {DigitAtoms[k] : k \in 1..Len(DigitAtoms)}

----------------------------------------------------------------------------
(* JSON values as path maps *)

Node(tag, s) == [t |-> tag, v |-> s]
Leaf(tag, s) == (<<>> :> Node(tag, s))
EmptyObj == Leaf("obj", <<>>)
EmptyArr == Leaf("arr", <<>>)
Undefined == Leaf("undef", <<>>)
JNull == Leaf("null", <<>>)
JStr(s) == Leaf("str", s)
JNum(a) == Leaf("num", <<a>>)

HasPrefix(p, pre) == Len(p) >= Len(pre) /\ SubSeq(p, 1, Len(pre)) = pre

\* The value at path pre of d, as a value of its own; undefined when absent.
SubDoc(d, pre) ==
  IF pre \notin DOMAIN d THEN Undefined
  ELSE [q \in {SubSeq(p, Len(pre) + 1, Len(p)) : p \in {x \in DOMAIN d : HasPrefix(x, pre)}}
          |-> d[pre \o q]]

\* d without the value at path pre.
DelDoc(d, pre) == [p \in {x \in DOMAIN d : ~HasPrefix(x, pre)} |-> d[p]]

\* d with the value at path pre replaced by sub.
PutDoc(d, pre, sub) ==
  LET keep == {x \in DOMAIN d : ~HasPrefix(x, pre)}
  IN  [p \in keep \cup {pre \o q : q \in DOMAIN sub}
         |-> IF HasPrefix(p, pre) THEN sub[SubSeq(p, Len(pre) + 1, Len(p))] ELSE d[p]]

\* The keys of the container at path pre.
KeysAt(d, pre) == {p[Len(pre) + 1] : p \in {x \in DOMAIN d : HasPrefix(x, pre) /\ Len(x) = Len(pre) + 1}}

TagAt(d, p) == IF p \in DOMAIN d THEN d[p].t ELSE "undef"
IsObject(d) == d[<<>>].t = "obj"
IsArray(d) == d[<<>>].t = "arr"

\* Array.length of the array at pre: elements are kept dense, keyed "0".."n-1".
ArrLen(d, pre) == Cardinality(KeysAt(d, pre))
IdxKey(k) == <<DigitAtoms[k + 1]>>

----------------------------------------------------------------------------
(* JSON.parse on atom sequences *)

ParseFail == [ok |-> FALSE, nxt |-> 0, doc |-> Undefined]

RECURSIVE SkipWs(_, _)
SkipWs(t, i) == IF i <= Len(t) /\ t[i] = WS THEN SkipWs(t, i + 1) ELSE i

RECURSIVE FindAtom(_, _, _)
\* The first index >= i holding atom a, or 0.
FindAtom(t, a, i) ==
  IF i > Len(t) THEN 0 ELSE IF t[i] = a THEN i ELSE FindAtom(t, a, i + 1)

\* A string literal starting at the quote at index i.
ParseString(t, i) ==
  LET j == FindAtom(t, DQ, i + 1)
  IN  IF j = 0 THEN ParseFail
      ELSE [ok |-> TRUE, nxt |-> j + 1, doc |-> JStr(SubSeq(t, i + 1, j - 1))]

RECURSIVE ParseValue(_, _)
RECURSIVE ParseMembers(_, _, _)
RECURSIVE ParseElems(_, _, _)

ParseValue(t, i0) ==
  LET i == SkipWs(t, i0)
  IN  IF i > Len(t) THEN ParseFail
      ELSE IF t[i] = LBRACE THEN
             LET j == SkipWs(t, i + 1)
             IN  IF j <= Len(t) /\ t[j] = RBRACE
                 THEN [ok |-> TRUE, nxt |-> j + 1, doc |-> EmptyObj]
                 ELSE ParseMembers(t, j, EmptyObj)
      ELSE IF t[i] = LBRACK THEN
             LET j == SkipWs(t, i + 1)
             IN  IF j <= Len(t) /\ t[j] = RBRACK
                 THEN [ok |-> TRUE, nxt |-> j + 1, doc |-> EmptyArr]
                 ELSE ParseElems(t, j, EmptyArr)
      ELSE IF t[i] = DQ THEN ParseString(t, i)
      ELSE IF t[i] \in NumAtoms THEN [ok |-> TRUE, nxt |-> i + 1, doc |-> JNum(t[i])]
      ELSE IF t[i] = "null" THEN [ok |-> TRUE, nxt |-> i + 1, doc |-> JNull]
      ELSE IF t[i] \in {"true", "false"}
           THEN [ok |-> TRUE, nxt |-> i + 1, doc |-> Leaf("bool", <<t[i]>>)]
      ELSE ParseFail

\* Members of an object from index i (a key is expected); acc holds the
\* members read so far.  A repeated key keeps the last value.
ParseMembers(t, i, acc) ==
  IF i > Len(t) \/ t[i] # DQ THEN ParseFail
  ELSE LET k == ParseString(t, i)
       IN  IF ~k.ok THEN ParseFail
           ELSE LET c == SkipWs(t, k.nxt)
                IN  IF c > Len(t) \/ t[c] # COLON THEN ParseFail
                    ELSE LET v == ParseValue(t, c + 1)
                         IN  IF ~v.ok THEN ParseFail
                             ELSE LET acc2 == PutDoc(acc, <<k.doc[<<>>].v>>, v.doc)
                                      e == SkipWs(t, v.nxt)
                                  IN  IF e > Len(t) THEN ParseFail
                                      ELSE IF t[e] = RBRACE
                                           THEN [ok |-> TRUE, nxt |-> e + 1, doc |-> acc2]
                                      ELSE IF t[e] = COMMA
                                           THEN ParseMembers(t, SkipWs(t, e + 1), acc2)
                                      ELSE ParseFail

ParseElems(t, i, acc) ==
  LET v == ParseValue(t, i)
  IN  IF ~v.ok THEN ParseFail
      ELSE LET acc2 == PutDoc(acc, <<IdxKey(ArrLen(acc, <<>>))>>, v.doc)
               e == SkipWs(t, v.nxt)
           IN  IF e > Len(t) THEN ParseFail
               ELSE IF t[e] = RBRACK THEN [ok |-> TRUE, nxt |-> e + 1, doc |-> acc2]
               ELSE IF t[e] = COMMA THEN ParseElems(t, SkipWs(t, e + 1), acc2)
               ELSE ParseFail

\* JSON.parse(t): ok = FALSE stands for the SyntaxError.
JsonParse(t) ==
  LET r == ParseValue(t, 1)
  IN  IF r.ok /\ SkipWs(t, r.nxt) > Len(t) THEN [ok |-> TRUE, doc |-> r.doc]
      ELSE [ok |-> FALSE, doc |-> Undefined]

----------------------------------------------------------------------------
(* JSON.stringify *)

RECURSIVE SetToSeq(_)
SetToSeq(S) == IF S = {} THEN <<>> ELSE LET x == CHOOSE y \in S : TRUE IN <<x>> \o SetToSeq(S \ {x})

RECURSIVE StringifyAt(_, _)
RECURSIVE StringifyMembers(_, _, _, _)
RECURSIVE StringifyElems(_, _, _)

\* The text of the value at path p of d.  An undefined element of an array
\* is written null; an undefined member of an object is left out.
StringifyAt(d, p) ==
  LET n == d[p]
  IN  IF n.t = "obj" THEN
        <<LBRACE>> \o StringifyMembers(d, p, SetToSeq({k \in KeysAt(d, p) : d[p \o <<k>>].t # "undef"}), TRUE)
                   \o <<RBRACE>>
      ELSE IF n.t = "arr" THEN <<LBRACK>> \o StringifyElems(d, p, 0) \o <<RBRACK>>
      ELSE IF n.t = "str" THEN <<DQ>> \o n.v \o <<DQ>>
      ELSE IF n.t \in {"num", "bool"} THEN n.v
      ELSE <<"null">>

StringifyMembers(d, p, ks, first) ==
  IF ks = <<>> THEN <<>>
  ELSE (IF first THEN <<>> ELSE <<COMMA>>) \o <<DQ>> \o Head(ks) \o <<DQ, COLON>>
       \o StringifyAt(d, p \o <<Head(ks)>>) \o StringifyMembers(d, p, Tail(ks), FALSE)

StringifyElems(d, p, k) ==
  IF k >= ArrLen(d, p) THEN <<>>
  ELSE (IF k = 0 THEN <<>> ELSE <<COMMA>>) \o StringifyAt(d, p \o <<IdxKey(k)>>)
       \o StringifyElems(d, p, k + 1)

JsonStringify(d) == StringifyAt(d, <<>>)

\* JSON.parse(JSON.stringify(d)): the deep copy the code takes.
DeepCopy(d) == JsonParse(JsonStringify(d)).doc

----------------------------------------------------------------------------
(* Response extraction *)

NotFound == [found |-> FALSE, s |-> <<>>]

RECURSIVE TrimEnd(_)
TrimEnd(s) == IF s # <<>> /\ s[Len(s)] = WS THEN TrimEnd(SubSeq(s, 1, Len(s) - 1)) ELSE s

RECURSIVE TrimStart(_)
TrimStart(s) == IF s # <<>> /\ s[1] = WS THEN TrimStart(Tail(s)) ELSE s

Trim(s) == TrimEnd(TrimStart(s))

\* Where the group of /FENCE(?:json)?\s*(\{[\s\S]*?)FENCE/ would start for
\* the fence at index i: the index of the brace, or 0.
FenceOpen(t, i) ==
  LET withLang == IF i + 1 <= Len(t) /\ t[i + 1] = "json" THEN SkipWs(t, i + 2) ELSE 0
      without == SkipWs(t, i + 1)
  IN  IF withLang # 0 /\ withLang <= Len(t) /\ t[withLang] = LBRACE THEN withLang
      ELSE IF without <= Len(t) /\ t[without] = LBRACE THEN without
      ELSE 0

RECURSIVE CodeBlockMatch(_, _)
\* The leftmost match of the code block pattern starting at or after index i.
CodeBlockMatch(t, i) ==
  LET f == FindAtom(t, FENCE, i)
  IN  IF f = 0 THEN NotFound
      ELSE LET k == FenceOpen(t, f)
               m == IF k = 0 THEN 0 ELSE FindAtom(t, FENCE, k + 1)
           IN  IF m # 0 THEN [found |-> TRUE, s |-> SubSeq(t, k, m - 1)]
               ELSE CodeBlockMatch(t, f + 1)

RECURSIVE BalancedEnd(_, _, _, _, _)
\* Walks from index i with the depth counter at depth: the index at which the
\* counter returns to zero, or 0 when the text ends first.
BalancedEnd(t, open, close, i, depth) ==
  IF i > Len(t) THEN 0
  ELSE IF t[i] = open THEN BalancedEnd(t, open, close, i + 1, depth + 1)
  ELSE IF t[i] = close THEN
         IF depth - 1 = 0 THEN i ELSE BalancedEnd(t, open, close, i + 1, depth - 1)
  ELSE BalancedEnd(t, open, close, i + 1, depth)

extractJsonString(response) ==
  LET block == CodeBlockMatch(response, 1)
      startIdx == FindAtom(response, LBRACE, 1)
      endIdx == IF startIdx = 0 THEN 0 ELSE BalancedEnd(response, LBRACE, RBRACE, startIdx, 0)
  IN  IF block.found THEN [found |-> TRUE, s |-> Trim(block.s)]
      ELSE IF startIdx # 0 /\ endIdx # 0
           THEN [found |-> TRUE, s |-> SubSeq(response, startIdx, endIdx)]
      ELSE NotFound

extractBalancedArray(text, startIdx) ==
  IF startIdx = 0 \/ startIdx > Len(text) THEN NotFound
  ELSE LET endIdx == BalancedEnd(text, LBRACK, RBRACK, startIdx, 0)
       IN  IF endIdx # 0 THEN [found |-> TRUE, s |-> SubSeq(text, startIdx, endIdx)]
           ELSE NotFound

\* The operations array of a reply; the empty array when none can be read.
extractJsonPatch(response) ==
  LET cbStart == FindAtom(response, FENCE, 1)
      cbEnd == IF cbStart = 0 THEN 0 ELSE FindAtom(response, FENCE, cbStart + 1)
      content == IF cbEnd = 0 THEN <<>> ELSE SubSeq(response, cbStart + 1, cbEnd - 1)
      inBlock == extractBalancedArray(content, FindAtom(content, LBRACK, 1))
      fromBlock == IF inBlock.found THEN JsonParse(inBlock.s) ELSE [ok |-> FALSE, doc |-> Undefined]
      raw == extractBalancedArray(response, FindAtom(response, LBRACK, 1))
      fromRaw == IF raw.found THEN JsonParse(raw.s) ELSE [ok |-> FALSE, doc |-> Undefined]
  IN  IF fromBlock.ok THEN fromBlock.doc
      ELSE IF fromRaw.ok THEN fromRaw.doc
      ELSE EmptyArr

----------------------------------------------------------------------------
(* Validation: tryParseJson *)

\* sub re-rooted at path pre.
Prefixed(sub, pre) == [p \in {pre \o q : q \in DOMAIN sub} |-> sub[SubSeq(p, Len(pre) + 1, Len(p))]]

\* The union of a set of maps with disjoint domains.
MergeAll(S) == [p \in UNION {DOMAIN f : f \in S} |-> (CHOOSE f \in S : p \in DOMAIN f)[p]]

RECURSIVE convertNullToUndefined(_)
\* Object.entries(obj) rebuilt as an object without its null members; the
\* object (and array) items of an array member are rebuilt the same way, the
\* other items, null included, are kept.
convertNullToUndefined(obj) ==
  LET item(v) == IF v[<<>>].t \in {"obj", "arr"} THEN convertNullToUndefined(v) ELSE v
      conv(v) ==
        IF v[<<>>].t = "arr"
        THEN MergeAll({EmptyArr} \cup {Prefixed(item(SubDoc(v, <<k>>)), <<k>>) : k \in KeysAt(v, <<>>)})
        ELSE IF v[<<>>].t = "obj" THEN convertNullToUndefined(v)
        ELSE v
      kept == {k \in KeysAt(obj, <<>>) : obj[<<k>>].t # "null"}
  IN  MergeAll({EmptyObj} \cup {Prefixed(conv(SubDoc(obj, <<k>>)), <<k>>) : k \in kept})

\* An output field of a signature: its name, the Zod type of its value and
\* whether the type is wrapped in optional().
Field(name, type, optional) == [name |-> name, type |-> type, optional |-> optional]

FieldError(path, message, expectedType) ==
  [path |-> path, message |-> message, expectedType |-> expectedType]

NoJsonError == FieldError(<<>>, "No JSON found in response", "object")
ParseFailedError == FieldError(<<>>, "JSON parse failed", "object")

TypeTag(type) ==
  CASE type = "string" -> "str"
    [] type = "number" -> "num"
    [] type = "boolean" -> "bool"
    [] type = "array" -> "arr"
    [] OTHER -> "obj"

\* The Zod types of the field kinds.  string, number, boolean: z.string(),
\* z.number(), z.boolean(); array: z.array(z.unknown()); object:
\* z.object({b: z.number().optional()}); enum: z.enum(EnumValues); nullable:
\* z.string().nullable().
EnumValues == {<<"red">>, <<"green">>}
ShapeKey == <<"b">>

\* type.safeParse(v) succeeds; v is not undefined.
Accepts(type, v) ==
  LET tag == v[<<>>].t
  IN  CASE type = "enum" -> tag = "str" /\ v[<<>>].v \in EnumValues
        [] type = "nullable" -> tag \in {"str", "null"}
        [] type = "object" -> tag = "obj" /\ TagAt(v, <<ShapeKey>>) \in {"undef", "num"}
        [] OTHER -> tag = TypeTag(type)

\* z.object(shape).safeParse(parsed): the issues, in field order.
RECURSIVE zodErrorsToFieldErrors(_, _, _)
zodErrorsToFieldErrors(parsed, schema, i) ==
  IF i > Len(schema) THEN <<>>
  ELSE LET f == schema[i]
           tag == TagAt(parsed, <<f.name>>)
           expected == IF f.optional THEN "optional" ELSE f.type
           issue ==
             IF tag = "undef"
             THEN IF f.optional THEN <<>>
                  ELSE <<FieldError(f.name, "Invalid input: received undefined", expected)>>
             ELSE IF Accepts(f.type, SubDoc(parsed, <<f.name>>)) THEN <<>>
             ELSE <<FieldError(f.name, "Invalid input: wrong type", expected)>>
       IN  issue \o zodErrorsToFieldErrors(parsed, schema, i + 1)

\* result.data: the fields of the schema that are present (unknown keys are
\* stripped, those of an object field included).
ZodData(parsed, schema) ==
  LET names == {schema[i].name : i \in 1..Len(schema)}
      objects == {schema[i].name : i \in {j \in 1..Len(schema) : schema[j].type = "object"}}
  IN  [p \in {x \in DOMAIN parsed :
                 \/ x = <<>>
                 \/ /\ x[1] \in names /\ parsed[<<x[1]>>].t # "undef"
                    /\ (Len(x) >= 2 /\ x[1] \in objects) => x[2] = ShapeKey}
         |-> parsed[p]]

TryFail(errors, json) == [ok |-> FALSE, data |-> Undefined, errors |-> errors, json |-> json]

tryParseJson(response, schema) ==
  LET Checked(parsed, errors) ==
        IF errors = <<>>
        THEN [ok |-> TRUE, data |-> ZodData(parsed, schema), errors |-> <<>>, json |-> parsed]
        ELSE TryFail(errors, parsed)
      Validated(parsed) == Checked(parsed, zodErrorsToFieldErrors(parsed, schema, 1))
      Parsed(p) ==
        IF ~p.ok THEN TryFail(<<ParseFailedError>>, Undefined)
        ELSE Validated(convertNullToUndefined(p.doc))
      Extracted(jsonStr) ==
        IF ~jsonStr.found THEN TryFail(<<NoJsonError>>, Undefined)
        ELSE Parsed(JsonParse(jsonStr.s))
  IN  Extracted(extractJsonString(response))

tryParseResponse(response, outputSchema) == tryParseJson(response, outputSchema)

\* The error kind the Predictor routes on.  The parsing module that sets it
\* is not among the sources; the kinds are the two the Validator is specified
\* to return for an extraction or a parse failure.
ErrorCode(e) ==
  IF e = NoJsonError THEN "no_json_found"
  ELSE IF e = ParseFailedError THEN "json_parse_failed"
  ELSE "invalid_field"

----------------------------------------------------------------------------
(* JSON Patch (RFC 6902) *)

RECURSIVE ReplaceDots(_)
\* s.replace(/\./g, '/')
ReplaceDots(s) ==
  IF s = <<>> THEN <<>>
  ELSE <<IF Head(s) = DOT THEN SLASH ELSE Head(s)>> \o ReplaceDots(Tail(s))

RECURSIVE ReplaceBrackets(_)
\* s.replace(/\[(\d+)\]/g, '/$1')
ReplaceBrackets(s) ==
  IF s = <<>> THEN <<>>
  ELSE IF Len(s) >= 3 /\ s[1] = LBRACK /\ s[2] \in NumAtoms /\ s[3] = RBRACK
       THEN <<SLASH, s[2]>> \o ReplaceBrackets(SubSeq(s, 4, Len(s)))
  ELSE <<Head(s)>> \o ReplaceBrackets(Tail(s))

toJsonPointer(path) ==
  IF path # <<>> /\ path[1] = SLASH THEN path
  ELSE IF path = <<>> THEN <<>>
  ELSE <<SLASH>> \o ReplaceBrackets(ReplaceDots(path))

RECURSIVE SplitParts(_, _)
\* path.split('/').filter(Boolean): the non-empty runs between slashes; cur
\* is the run being read.
SplitParts(s, cur) ==
  IF s = <<>> THEN (IF cur = <<>> THEN <<>> ELSE <<cur>>)
  ELSE IF Head(s) = SLASH
       THEN (IF cur = <<>> THEN <<>> ELSE <<cur>>) \o SplitParts(Tail(s), <<>>)
  ELSE SplitParts(Tail(s), Append(cur, Head(s)))

PathParts(path) == SplitParts(toJsonPointer(path), <<>>)

UNSAFE_KEYS == {<<"__proto__">>, <<"constructor">>, <<"prototype">>}

isUnsafeKey(key) == key \in UNSAFE_KEYS

RECURSIVE ReplaceTilde(_, _, _)
\* s.replace(/~d/g, by) for the digit atom d
ReplaceTilde(s, d, by) ==
  IF s = <<>> THEN <<>>
  ELSE IF Len(s) >= 2 /\ s[1] = TILDE /\ s[2] = d
       THEN <<by>> \o ReplaceTilde(SubSeq(s, 3, Len(s)), d, by)
  ELSE <<Head(s)>> \o ReplaceTilde(Tail(s), d, by)

unescapeJsonPointerSegment(segment) == ReplaceTilde(ReplaceTilde(segment, "1", SLASH), "0", TILDE)

Includes(s, a) == \E i \in 1..Len(s) : s[i] = a

isSafePathSegment(segment) ==
  LET normalized == unescapeJsonPointerSegment(segment)
  IN  /\ ~isUnsafeKey(normalized)
      /\ ~Includes(normalized, LBRACK)
      /\ ~Includes(normalized, RBRACK)

\* The guard each walk applies to a segment before it uses it.
Blocked(part) == isUnsafeKey(part) \/ ~isSafePathSegment(part)

\* /^\d+$/.test(part)
AllDigits(part) == part # <<>> /\ \A i \in 1..Len(part) : part[i] \in NumAtoms

\* parseInt(part, 10) of a segment: the integer it starts with, or NaN.
NaN == [nan |-> TRUE, n |-> 0]
IsDigit(a) == \E j \in 1..Len(DigitAtoms) : DigitAtoms[j] = a
DigitValue(a) == (CHOOSE j \in 1..Len(DigitAtoms) : DigitAtoms[j] = a) - 1
parseInt(part) ==
  LET s == TrimStart(part)
  IN  IF s # <<>> /\ IsDigit(s[1]) THEN [nan |-> FALSE, n |-> DigitValue(s[1])]
      ELSE IF Len(s) >= 2 /\ s[1] = "-" /\ IsDigit(s[2]) THEN [nan |-> FALSE, n |-> 0 - DigitValue(s[2])]
      ELSE NaN

\* current[idx] = sub on the array at path p: the slots between the old
\* length and idx become holes (undefined).
ArrSet(d, p, idx, sub) ==
  LET len == ArrLen(d, p)
      holes == {IdxKey(k) : k \in len..(idx - 1)}
      filled == [q \in DOMAIN d \cup {p \o <<h>> : h \in holes}
                   |-> IF q \in DOMAIN d THEN d[q] ELSE Node("undef", <<>>)]
  IN  PutDoc(filled, p \o <<IdxKey(idx)>>, sub)

\* current.splice(idx, 1) on the array at path p, 0 <= idx < length.
ArrSplice(d, p, idx) ==
  LET len == ArrLen(d, p)
      rest == DelDoc(d, p)
      moved == {Prefixed(SubDoc(d, p \o <<IdxKey(k)>>),
                         p \o <<IdxKey(IF k < idx THEN k ELSE k - 1)>>) : k \in (0..(len - 1)) \ {idx}}
  IN  MergeAll({rest, (p :> d[p])} \cup moved)

\* A position of a walk: at = TRUE and the path of the current value, or
\* at = FALSE when the current value is not part of the document (a property
\* of an array that is not an element).
At(p) == [at |-> TRUE, p |-> p]
Detached == [at |-> FALSE, p |-> <<>>]

\* An intermediate container that is an object whatever the next segment.
ObjectAlways(nextPart) == EmptyObj
\* The intermediate container created for a missing member: an array when
\* the next segment matches /^\d+$/, else an object.
Container(nextPart) == IF AllDigits(nextPart) THEN EmptyArr ELSE EmptyObj

RECURSIVE SetWalk(_, _, _, _, _)
\* setValueAtPath from segment i on, the current value being cur.
SetWalk(d, parts, i, cur, value) ==
  LET part == parts[i]
      tag == IF cur.at THEN TagAt(d, cur.p) ELSE "undef"
      idx == parseInt(part)
      child == IF tag = "arr" /\ ~idx.nan /\ idx.n >= 0 THEN cur.p \o <<IdxKey(idx.n)>>
               ELSE cur.p \o <<part>>
  IN  IF Blocked(part) THEN d
      ELSE IF i = Len(parts) THEN
             IF tag = "arr" THEN (IF idx.nan \/ idx.n < 0 THEN d ELSE ArrSet(d, cur.p, idx.n, value))
             ELSE IF tag = "obj" THEN PutDoc(d, child, value)
             ELSE d
      ELSE IF tag = "arr" THEN
             IF idx.nan \/ idx.n < 0 THEN d
             ELSE IF TagAt(d, child) = "undef"
                  THEN SetWalk(ArrSet(d, cur.p, idx.n, Container(parts[i + 1])),
                               parts, i + 1, At(child), value)
             ELSE SetWalk(d, parts, i + 1, At(child), value)
      ELSE IF tag = "obj" THEN
             IF TagAt(d, child) = "undef"
             THEN SetWalk(PutDoc(d, child, Container(parts[i + 1])), parts, i + 1, At(child), value)
             ELSE SetWalk(d, parts, i + 1, At(child), value)
      ELSE SetWalk(d, parts, i + 1, cur, value)

setValueAtPath(obj, parts, value) ==
  IF parts = <<>> THEN obj ELSE SetWalk(obj, parts, 1, At(<<>>), value)

RECURSIVE GetWalk(_, _, _, _)
GetWalk(d, parts, i, cur) ==
  IF i > Len(parts) THEN SubDoc(d, cur)
  ELSE LET part == parts[i]
           tag == TagAt(d, cur)
           idx == parseInt(part)
       IN  IF Blocked(part) THEN Undefined
           ELSE IF tag \in {"null", "undef"} THEN Undefined
           ELSE IF tag = "arr" THEN
                  IF idx.nan \/ idx.n < 0 \/ idx.n >= ArrLen(d, cur) THEN Undefined
                  ELSE GetWalk(d, parts, i + 1, cur \o <<IdxKey(idx.n)>>)
           ELSE IF tag = "obj" THEN
                  IF TagAt(d, cur \o <<part>>) = "undef" THEN Undefined
                  ELSE GetWalk(d, parts, i + 1, cur \o <<part>>)
           ELSE Undefined

getValueAtPath(obj, parts) == GetWalk(obj, parts, 1, <<>>)

RECURSIVE RemoveWalk(_, _, _, _)
RemoveWalk(d, parts, i, cur) ==
  LET part == parts[i]
      tag == TagAt(d, cur)
      idx == parseInt(part)
      len == ArrLen(d, cur)
      \* splice(idx, 1): NaN is taken as 0, a negative idx counts from the end
      at == IF idx.nan THEN 0
            ELSE IF idx.n >= 0 THEN idx.n
            ELSE IF len + idx.n >= 0 THEN len + idx.n
            ELSE 0
  IN  IF Blocked(part) THEN d
      ELSE IF i = Len(parts) THEN
             IF tag = "arr" THEN (IF at < len THEN ArrSplice(d, cur, at) ELSE d)
             ELSE IF tag = "obj" THEN DelDoc(d, cur \o <<part>>)
             ELSE d
      ELSE IF tag = "arr" THEN
             IF idx.nan \/ idx.n < 0 \/ idx.n >= len THEN d
             ELSE RemoveWalk(d, parts, i + 1, cur \o <<IdxKey(idx.n)>>)
      ELSE IF tag = "obj" THEN
             IF cur \o <<part>> \in DOMAIN d THEN RemoveWalk(d, parts, i + 1, cur \o <<part>>)
             ELSE d
      ELSE d

removeValueAtPath(obj, parts) ==
  IF parts = <<>> THEN obj ELSE RemoveWalk(obj, parts, 1, <<>>)

KeyOp == <<"op">>
KeyPath == <<"path">>
KeyValue == <<"value">>
KeyFrom == <<"from">>

\* toJsonPointer(op.path) raises a TypeError unless op is an object whose
\* path is a string; the call stands before the try block.
OpThrows(op) == op[<<>>].t # "obj" \/ TagAt(op, <<KeyPath>>) # "str"

\* JSON.stringify(actualValue) === JSON.stringify(op.value): the text of
\* undefined is undefined, which equals no string.
TestMatches(actualValue, value) ==
  IF actualValue[<<>>].t = "undef" \/ value[<<>>].t = "undef"
  THEN actualValue[<<>>].t = value[<<>>].t
  ELSE JsonStringify(actualValue) = JsonStringify(value)
\* A test that writes the expected value when the actual one differs.
TestAsReplace(result, pathParts, value) ==
  IF TestMatches(getValueAtPath(result, pathParts), value) THEN result
  ELSE setValueAtPath(result, pathParts, value)
\* case 'test': a mismatch is written to the log; the document after it.
Test(result, pathParts, value) ==
  IF TestMatches(getValueAtPath(result, pathParts), value) THEN result
  ELSE result

\* One operation applied inside the try block: the document after it, and
\* whether it made the document contain itself (a move from the root).
ApplyOp(result, op) ==
  LET same == [doc |-> result, cyclic |-> FALSE]
      Plain(doc) == [doc |-> doc, cyclic |-> FALSE]
      Set(pathParts, value) ==
        IF pathParts = <<>>
        THEN (IF value[<<>>].t \in {"obj", "arr"} THEN Plain(value) ELSE same)
        ELSE Plain(setValueAtPath(result, pathParts, value))
      MoveRoot(set) == [doc |-> set, cyclic |-> set # result]
      Move(pathParts, fromParts) ==
        IF fromParts = <<>> THEN MoveRoot(setValueAtPath(result, pathParts, EmptyObj))
        ELSE Plain(setValueAtPath(removeValueAtPath(result, fromParts), pathParts,
                                  getValueAtPath(result, fromParts)))
      \* JSON.parse(JSON.stringify(undefined)) raises inside the try
      Copy(pathParts, source) ==
        IF source[<<>>].t = "undef" THEN same
        ELSE Plain(setValueAtPath(result, pathParts, DeepCopy(source)))
      \* !op.from leaves the switch; a truthy from that is no string raises
      \* inside the try and voids the operation
      hasFrom == TagAt(op, <<KeyFrom>>) = "str" /\ op[<<KeyFrom>>].v # <<>>
      Switch(kind, pathParts) ==
        IF kind \in {<<"add">>, <<"replace">>} THEN Set(pathParts, SubDoc(op, <<KeyValue>>))
        ELSE IF kind = <<"remove">> THEN Plain(removeValueAtPath(result, pathParts))
        ELSE IF kind = <<"move">> /\ hasFrom THEN Move(pathParts, PathParts(op[<<KeyFrom>>].v))
        ELSE IF kind = <<"copy">> /\ hasFrom
             THEN Copy(pathParts, getValueAtPath(result, PathParts(op[<<KeyFrom>>].v)))
        ELSE IF kind = <<"test">> THEN Plain(Test(result, pathParts, SubDoc(op, <<KeyValue>>)))
        ELSE same
  IN  Switch(IF TagAt(op, <<KeyOp>>) = "str" THEN op[<<KeyOp>>].v ELSE <<>>,
             PathParts(op[<<KeyPath>>].v))

RECURSIVE ApplyOps(_, _, _, _)
ApplyOps(result, cyclic, operations, k) ==
  LET Applied(r) == ApplyOps(r.doc, cyclic \/ r.cyclic, operations, k + 1)
      Each(op) ==
        IF OpThrows(op) THEN [threw |-> TRUE, cyclic |-> FALSE, doc |-> Undefined]
        ELSE Applied(ApplyOp(result, op))
  IN  IF k >= ArrLen(operations, <<>>) THEN [threw |-> FALSE, cyclic |-> cyclic, doc |-> result]
      ELSE Each(SubDoc(operations, <<IdxKey(k)>>))

\* applyJsonPatch(obj, operations): threw = TRUE when a TypeError leaves the
\* function; cyclic = TRUE when the returned document contains itself.
applyJsonPatch(obj, operations) == ApplyOps(DeepCopy(obj), FALSE, operations, 0)

----------------------------------------------------------------------------
(* Values of the state machine *)

\* undefined, for a session id or a model.
None == "none"

\* An optional member of a configuration object: <<>> when absent, <<v>> when
\* present.  Nullish(x, d) is x ?? d.
Absent == <<>>
Nullish(x, d) == IF x = Absent THEN d ELSE x[1]

\* PipelineConfig of the pipeline under study: defaultModel, and no retry
\* member.
config == [name |-> "main", defaultModel |-> "M1", defaultAgent |-> "A1", retry |-> Absent]
\* PipelineConfig of the sub-pipelines.
subConfig == [name |-> "sub", defaultModel |-> "M2", defaultAgent |-> "A1", retry |-> Absent]

\* The output fields of the signature the predictors execute.
TestSig == <<Field(<<"name">>, "string", FALSE), Field(<<"age">>, "number", FALSE)>>

\* RetryConfig and RunOptions.
RetryConfig(maxAttempts, onParseError) == [maxAttempts |-> maxAttempts, onParseError |-> onParseError]
RunOptions(newSession, model, retry) == [newSession |-> newSession, model |-> model, retry |-> retry]

\* CorrectionConfig | false.  enabled = FALSE is correction: false; the
\* members are optional.
CorrectionConfig(maxRounds, maxFields, model) ==
  [enabled |-> TRUE, maxRounds |-> maxRounds, maxFields |-> maxFields, model |-> model]
CorrectionOff == [enabled |-> FALSE, maxRounds |-> Absent, maxFields |-> Absent, model |-> None]
CorrectionDefaults == CorrectionConfig(Absent, Absent, None)

\* A module whose forward is Predict.execute with the given PredictConfig,
\* and a module whose forward is code of the caller.
PredictModule(newSession, model, correction) ==
  [kind |-> "predict", newSession |-> newSession, model |-> model, agent |-> None,
   correction |-> correction]
CustomModule ==
  [kind |-> "custom", newSession |-> FALSE, model |-> None, agent |-> None,
   correction |-> CorrectionOff]

\* A predictor configured with an agent of its own.
WithAgent(module, agent) == [module EXCEPT !.agent = agent]

\* Errors.  at is the attempt of Pipeline.run during which the error object
\* was created; it tells error objects of one run apart.  The message is
\* kept for the error of a cancelled backend call only.
Error(type, at) ==
  [type |-> type, at |-> at, errors |-> <<>>, correctionAttempts |-> 0, message |-> ""]
SchemaValidationError(errors, correctionAttempts, at) ==
  [type |-> "SchemaValidationError", at |-> at, errors |-> errors,
   correctionAttempts |-> correctionAttempts, message |-> ""]
\* new Error('Request aborted')
AbortedError(at) == [Error("Error", at) EXCEPT !.message = "Request aborted"]
\* What mkdir or writeFile rejects with.
WriteError(at) == [Error("Error", at) EXCEPT !.message = "write failed"]
NoError == Error("undefined", 0)

----------------------------------------------------------------------------
(* Backend replies *)

Str(a) == <<DQ, a, DQ>>
Member(k, v) == Str(k) \o <<COLON>> \o v

\* {"name":"John","age":3}
ValidText == <<LBRACE>> \o Member("name", Str("John")) \o <<COMMA>> \o Member("age", <<"3">>) \o <<RBRACE>>
\* {"name":"John"}
MissingAgeText == <<LBRACE>> \o Member("name", Str("John")) \o <<RBRACE>>
\* a reply without JSON
NoJsonText == <<"sorry">>
\* { sorry }
MalformedText == <<LBRACE, "sorry", RBRACE>>

\* [{"op":"add","path":"/age","value":3}]
AddAgePatch ==
  <<LBRACK, LBRACE>> \o Member("op", Str("add")) \o <<COMMA>> \o Member("path", <<DQ, SLASH, "age", DQ>>)
    \o <<COMMA>> \o Member("value", <<"3">>) \o <<RBRACE, RBRACK>>
\* [{"op":"remove","path":"/name"}]
RemoveNamePatch ==
  <<LBRACK, LBRACE>> \o Member("op", Str("remove")) \o <<COMMA>> \o Member("path", <<DQ, SLASH, "name", DQ>>)
    \o <<RBRACE, RBRACK>>
\* [{"op":"add","value":3}]
NoPathPatch ==
  <<LBRACK, LBRACE>> \o Member("op", Str("add")) \o <<COMMA>> \o Member("value", <<"3">>) \o <<RBRACE, RBRACK>>
\* [{"op":"move","from":"/","path":"/self"}]
MoveRootPatch ==
  <<LBRACK, LBRACE>> \o Member("op", Str("move")) \o <<COMMA>> \o Member("from", <<DQ, SLASH, DQ>>)
    \o <<COMMA>> \o Member("path", <<DQ, SLASH, "self", DQ>>) \o <<RBRACE, RBRACK>>

SessionIds == {"s1", "s2"}

\* An object from its members <<key, value>>, an array from its items.
Obj(members) == MergeAll({EmptyObj} \cup {Prefixed(m[2], <<m[1]>>) : m \in members})
Arr(items) == MergeAll({EmptyArr} \cup {Prefixed(items[k], <<IdxKey(k - 1)>>) : k \in 1..Len(items)})

\* The JSON Pointer text of a sequence of segments: /a/b for <<"a", "b">>.
Pointer(segs) == [i \in 1..(2 * Len(segs)) |-> IF i % 2 = 1 THEN SLASH ELSE segs[i \div 2]]

\* JsonPatchOperation objects.
OpPath(kind, path) == Obj({<<KeyOp, JStr(<<kind>>)>>, <<KeyPath, JStr(path)>>})
OpValue(kind, path, value) == PutDoc(OpPath(kind, path), <<KeyValue>>, value)
OpFrom(kind, from, path) == PutDoc(OpPath(kind, path), <<KeyFrom>>, JStr(from))

\* Documents the patch engines are applied to:
\* {"name":"John"}, {"name":"John","items":[1,2]}, {"name":"John","a":{"b":1}}
Documents ==
  {Obj({<<<<"name">>, JStr(<<"John">>)>>}),
   Obj({<<<<"name">>, JStr(<<"John">>)>>, <<<<"items">>, Arr(<<JNum("1"), JNum("2")>>)>>}),
   Obj({<<<<"name">>, JStr(<<"John">>)>>, <<<<"a">>, Obj({<<<<"b">>, JNum("1")>>})>>})}

\* Elements of an operations array as read from a reply: well-formed
\* operations, operations that name __proto__, constructor or prototype in
\* path or from, a bracket segment, an operation without path, an element
\* that is a number; an escaped segment (/a~1b), paths through members that
\* are missing or a string, a test that matches, and removes of a missing
\* key, of an index out of range, and of a segment that is no index or is
\* negative on an array.
PatchOps ==
  {OpValue("add", Pointer(<<"age">>), JNum("3")),
   OpValue("add", Pointer(<<"__proto__", "polluted">>), JStr(<<"x">>)),
   OpValue("add", Pointer(<<"a", "__proto__", "b">>), JNum("1")),
   OpValue("replace", <<SLASH, "items", LBRACK, "0", RBRACK>>, JNum("5")),
   OpPath("remove", Pointer(<<"name">>)),
   OpPath("remove", Pointer(<<"constructor", "name">>)),
   OpFrom("move", Pointer(<<"name">>), Pointer(<<"prototype", "name">>)),
   OpFrom("move", Pointer(<<"__proto__", "x">>), Pointer(<<"name">>)),
   OpFrom("copy", Pointer(<<"constructor">>), Pointer(<<"name">>)),
   OpFrom("copy", Pointer(<<"name">>), Pointer(<<"alias">>)),
   OpValue("test", Pointer(<<"name">>), JStr(<<"x">>)),
   OpValue("test", Pointer(<<"name">>), JStr(<<"John">>)),
   OpValue("add", <<SLASH, "a", TILDE, "1", "b">>, JNum("3")),
   OpValue("add", Pointer(<<"tags", "0">>), JNum("1")),
   OpValue("replace", Pointer(<<"b", "c">>), JNum("1")),
   OpValue("add", Pointer(<<"name", "first">>), JNum("1")),
   OpPath("remove", Pointer(<<"missing">>)),
   OpPath("remove", Pointer(<<"items", "5">>)),
   OpPath("remove", Pointer(<<"items", "x">>)),
   OpPath("remove", <<SLASH, "items", SLASH, "-", "1">>),
   Obj({<<KeyOp, JStr(<<"add">>)>>, <<KeyValue, JNum("3")>>}),
   JNum("3")}

----------------------------------------------------------------------------
(* State *)

VARIABLES
  scope,       \* which calls the caller of the pipeline makes, which replies the backend gives
  ctx,         \* Pipeline.ctx: sessionId, defaultModel
  state,       \* Pipeline.state: steps, opencodeSessionId
  stepNumber,  \* Pipeline.stepNumber
  ckpt,        \* the checkpoint file: its content and how often it was written
  pc,          \* "idle", or where the running step awaits: "initial", "repair",
               \* "patch" (a backend request), "custom" (forward of caller code),
               \* "settled" (forward has returned or raised, run not yet resumed)
  run,         \* locals of the Pipeline.run call, and about the call: fwdCalls counts
               \* the calls of forward, plain tells that no attempt raised a
               \* SchemaValidationError or JsonParseError, ...AtStart are values
               \* at the time of the call
  req,         \* the backend request in flight
  ex,          \* locals of the Predict.execute call
  out,         \* how the last forward call settled
  result,      \* how the last Pipeline.run call completed
  chain,       \* session id of the latest reply to an initial request, None when
               \* there is none since construction or since a run asked newSession;
               \* for a pipeline loaded from a checkpoint, the session id restored
  call,        \* the latest call of a patch engine: its arguments and what it returned;
               \* in scope "agent", the runAgent call and its subprocess or query;
               \* in scope "extract", the extractJsonString call
  sub,         \* the sub-pipeline of the latest runSub call, and values of the parent
               \* at the time of the call
  load         \* what the latest loadCheckpoint call returned, "none" once the
               \* pipeline was used again; count counts the calls

vars == <<scope, ctx, state, stepNumber, ckpt, pc, run, req, ex, out, result, chain, call, sub, load>>

\* Bounds of the exploration.
MaxSteps == 2
MaxAttempts == 2
MaxRoundsChoice == 1
MaxOps == 2
MaxSubSteps == 1
MaxLoads == 1
\* Run calls explored where every write can fail and every call settles.
MaxRuns == 1
\* Calls of abort() on the controller of the signal of a request.
MaxAborts == 2
\* The run calls the caller makes in a scope.
StepLimit(sc) == IF sc = "terminates" THEN MaxRuns ELSE MaxSteps

\* Defaults of the correction loop.
DefaultMaxRounds == 3
DefaultMaxFields == 5
\* The retry policy of a pipeline without one.
DefaultMaxAttempts == 1

NoReq == [kind |-> "none", sessionId |-> None, model |-> None, agent |-> None]
Request(kind, sessionId, model, agent) ==
  [kind |-> kind, sessionId |-> sessionId, model |-> model, agent |-> agent]

NoOut ==
  [kind |-> "none", data |-> Undefined, error |-> NoError, sessionId |-> None, raw |-> <<>>]

\* No call of a patch engine.  jq tells what running the jq program does,
\* done whether the call has returned or raised, spawned whether it started jq.
NoJq == [installed |-> FALSE, exitCode |-> 0, stdout |-> <<>>]
NoCall ==
  [fn |-> "none", obj |-> EmptyObj, operations |-> EmptyArr, patch |-> <<>>, jq |-> NoJq,
   done |-> FALSE, ret |-> [threw |-> FALSE, cyclic |-> FALSE, doc |-> EmptyObj],
   spawned |-> FALSE, schema |-> <<>>, parse |-> TryFail(<<>>, Undefined)]
NoResult == [kind |-> "none", attempt |-> 0, error |-> NoError]

\* Locals of execute before the first reply.
ExStart ==
  [replied |-> FALSE, sid |-> None,
   errors |-> <<>>, json |-> Undefined,
   currentJson |-> Undefined, currentErrors |-> <<>>, round |-> 0,
   repairCalls |-> 0, patchCalls |-> 0, revalidated |-> FALSE, raw |-> <<>>]

\* extendBaseState({topic}) of a pipeline whose session id is id: the base
\* fields, no opencodeSessionId, and one field of the application.
createState(id) ==
  [sessionId |-> id, startedAt |-> "t0", phase |-> "init", steps |-> <<>>,
   subPipelines |-> <<>>, opencodeSessionId |-> None, topic |-> "demo"]

\* new Pipeline(cfg, () => st)
Pipeline(cfg, st) ==
  [ctx |-> [sessionId |-> None, defaultModel |-> cfg.defaultModel, defaultAgent |-> cfg.defaultAgent],
   state |-> st, stepNumber |-> 0]

\* The checkpoint file before the first write; saved is the state object
\* that the latest write serialized.
NoFile == [content |-> <<>>, writes |-> 0, saved |-> <<>>]

NoSub ==
  [status |-> "none", name |-> subConfig.name, ctx |-> Pipeline(subConfig, createState("p2")).ctx,
   state |-> createState("p2"), stepNumber |-> 0,
   heldAtStart |-> None, subsAtStart |-> 0, writesAtStart |-> 0]

NoLoad == [kind |-> "none", count |-> 0, read |-> "ok", stepNumberBefore |-> 0]

RunStart ==
  [module |-> CustomModule, options |-> RunOptions(FALSE, None, Absent),
   retryConfig |-> RetryConfig(DefaultMaxAttempts, FALSE),
   originalModel |-> None, attempt |-> 0, lastError |-> NoError,
   fwdCalls |-> 0, plain |-> TRUE, heldAtStart |-> None, stepsAtStart |-> 0,
   writesAtStart |-> 0]

----------------------------------------------------------------------------
(* The calls and replies of each scope *)

\* No retry member (one attempt), or MaxAttempts attempts with and without
\* onParseError.
RetryChoices == {Absent} \cup {<<RetryConfig(MaxAttempts, b)>> : b \in BOOLEAN}
\* The same, and a retry member that allows no attempt at all.
StorageRetryChoices == RetryChoices \cup {<<RetryConfig(0, FALSE)>>}

\* scope "pipeline": every run option, on caller code and on predictors
\* without correction, and a correcting predictor under the default options;
\* scope "predict": every predictor configuration, one of them with a model
\* and an agent of its own, under the default options;
\* scope "resume": caller code and a correcting predictor, under the default
\* options, on a pipeline that also runs sub-pipelines and is reloaded;
\* scope "storage": caller code and a correcting predictor, with and without
\* a new session, under every retry member, on a disk whose writes can fail;
\* scope "terminates": caller code and predictors with the default and with
\* a configured number of rounds, under every retry member, on such a disk.
Calls(sc) ==
  IF sc = "terminates"
  THEN {<<m, RunOptions(FALSE, None, r)>> :
          m \in {CustomModule, PredictModule(FALSE, None, CorrectionDefaults),
                 PredictModule(FALSE, None, CorrectionConfig(<<MaxRoundsChoice>>, Absent, None))},
          r \in StorageRetryChoices}
  ELSE IF sc = "storage"
  THEN {<<m, RunOptions(ns, None, r)>> :
          m \in {CustomModule, PredictModule(FALSE, None, CorrectionConfig(<<1>>, Absent, None))},
          ns \in BOOLEAN, r \in StorageRetryChoices}
  ELSE IF sc = "resume"
  THEN {<<m, RunOptions(FALSE, None, Absent)>> :
          m \in {CustomModule, PredictModule(FALSE, None, CorrectionConfig(<<1>>, Absent, None))}}
  ELSE IF sc = "pipeline"
  THEN {<<m, RunOptions(ns, md, r)>> :
          m \in {CustomModule, PredictModule(FALSE, None, CorrectionOff),
                 PredictModule(TRUE, None, CorrectionOff)},
          ns \in BOOLEAN, md \in {None, "M2"}, r \in RetryChoices}
       \cup {<<PredictModule(FALSE, None, CorrectionConfig(<<1>>, Absent, None)),
               RunOptions(FALSE, None, Absent)>>}
  ELSE {<<m, RunOptions(FALSE, None, Absent)>> :
          m \in {CustomModule}
                \cup {PredictModule(FALSE, None, c) :
                        c \in {CorrectionOff, CorrectionDefaults,
                               CorrectionConfig(Absent, <<0>>, None),
                               CorrectionConfig(Absent, Absent, "M3")}
                              \cup {CorrectionConfig(<<n>>, Absent, None) : n \in 0..MaxRoundsChoice}}
                \cup {WithAgent(PredictModule(FALSE, "M2", CorrectionConfig(<<1>>, Absent, None)), "A2")}}

InitialTexts(sc) ==
  IF sc \in {"pipeline", "resume", "storage", "terminates"} THEN {ValidText, MissingAgeText, NoJsonText}
  ELSE {ValidText, MissingAgeText, NoJsonText, MalformedText}
RepairTexts(sc) ==
  IF sc \in {"pipeline", "resume", "storage", "terminates"} THEN {ValidText, NoJsonText}
  ELSE {ValidText, MissingAgeText, NoJsonText, MalformedText}
PatchTexts(sc) ==
  IF sc \in {"pipeline", "resume", "storage", "terminates"} THEN {AddAgePatch, NoJsonText}
  ELSE {AddAgePatch, RemoveNamePatch, NoPathPatch, MoveRootPatch, NoJsonText}

\* The session id a backend reply carries; the empty string when the backend
\* reported none.
ReplyIds(sc) ==
  IF sc = "resume" THEN {"s1", ""} ELSE IF sc = "terminates" THEN {"s1"} ELSE SessionIds

\* Whether a write of the checkpoint file succeeds.
WriteOutcomes(sc) == IF sc \in {"storage", "terminates"} THEN {"ok", "error"} ELSE {"ok"}

\* The session id the reply to a repair or patch request carries.
CorrectionReplyIds == {"s3"}

\* What forward of caller code can do: return, or raise one of these errors;
\* "aborted" is the error of a backend call it made with an abort signal.
CustomOutcomes == {"return", "Error", "JsonParseError", "SchemaValidationError", "aborted"}

----------------------------------------------------------------------------
(* Mutations *)

\* Mutations of the model that the properties at the end must tell from it: other
\* retry tests, a checkpoint that is not written, other session ids for the
\* initial request, a jq patch engine without its allow-list, a sub-pipeline
\* on the context of its parent, a loaded pipeline that counts from zero.
RetryAnyError(err, attempt, retryConfig) ==
  attempt < retryConfig.maxAttempts /\ (err.type # "JsonParseError" \/ retryConfig.onParseError)
NeverRetry(err, attempt, retryConfig) == FALSE
RetryParseErrors(err, attempt, retryConfig) ==
  err.type # "SchemaValidationError" /\ attempt < retryConfig.maxAttempts
RetryOnceMore(err, attempt, retryConfig) ==
  IF err.type = "SchemaValidationError" THEN FALSE
  ELSE attempt <= retryConfig.maxAttempts
       /\ (err.type # "JsonParseError" \/ retryConfig.onParseError)
NoWrite(file, st) == file
NoSessionId(self, c) == None
ContextSessionId(self, c) == c.sessionId
AnyCharacters(patch) == TRUE
SharedContext(parentCtx, subCtx, sid) ==
  [parent |-> [parentCtx EXCEPT !.sessionId = sid], sub |-> [subCtx EXCEPT !.sessionId = sid]]
StepNumberZero(st) == 0
FreshCorrectionSession(correction, sessionId) == None
ReplySessionStored(c, sid) == [c EXCEPT !.sessionId = sid]
SessionIdNotStored(c, sid) == c

----------------------------------------------------------------------------
(* jq patches *)

\* Atoms that are runs of word characters (\w) are all atoms but these.
Punctuation ==
  {DQ, FENCE, WS, LBRACE, RBRACE, LBRACK, RBRACK, COMMA, COLON, SLASH, TILDE, DOT,
   DOLLAR, ATSIGN, BACKTICK, LPAREN, RPAREN, "=", "|", "'", "-", "+", ";"}
IsWord(a) == a \notin Punctuation

\* /\bw\b/.test(s): the atom w with no word atom next to it.
WordMatch(s, w) ==
  \E i \in 1..Len(s) :
    /\ s[i] = w
    /\ (i = 1 \/ ~IsWord(s[i - 1]))
    /\ (i = Len(s) \/ ~IsWord(s[i + 1]))

\* /am/.test(s) for a punctuation atom a and a name m in names; the word
\* atoms of the alphabet that begin with a name are the names themselves.
Follows(s, a, names) == \E i \in 1..(Len(s) - 1) : s[i] = a /\ s[i + 1] \in names

\* The backtick characters of s; a fence is three of them.
RECURSIVE Backticks(_)
Backticks(s) ==
  IF s = <<>> THEN 0
  ELSE (IF Head(s) = BACKTICK THEN 1 ELSE IF Head(s) = FENCE THEN 3 ELSE 0) + Backticks(Tail(s))

\* Some pattern of unsafePatterns matches the patch.
unsafePatterns(patch) ==
  \/ Follows(patch, DOLLAR, {"ENV", "env"})
  \/ Follows(patch, DOLLAR, {"__loc__"})
  \/ WordMatch(patch, "input")
  \/ WordMatch(patch, "inputs")
  \/ WordMatch(patch, "system")
  \/ Follows(patch, ATSIGN, {"base64d", "uri", "csv", "tsv", "json", "text", "sh"})
  \/ Backticks(patch) >= 2
  \/ WordMatch(patch, "import")
  \/ WordMatch(patch, "include")
  \/ WordMatch(patch, "debug")
  \/ WordMatch(patch, "error")
  \/ WordMatch(patch, "halt")
  \/ Includes(patch, DOLLAR)

\* /^[\s\w[\]."'=|,:\-{}]*$/.test(patch)
safePattern(patch) ==
  \A i \in 1..Len(patch) :
    \/ IsWord(patch[i])
    \/ patch[i] \in {WS, LBRACK, RBRACK, DOT, DQ, "'", "=", "|", COMMA, COLON, "-", LBRACE, RBRACE}

\* applyJqPatch(obj, patch) where running jq does what jq says: the program
\* is not installed (spawnSync raises), or exits with exitCode having
\* printed stdout.  spawned tells whether the call reached spawnSync.
applyJqPatch(obj, patch, jq) ==
  LET Kept(spawned) == [threw |-> FALSE, cyclic |-> FALSE, doc |-> obj, spawned |-> spawned]
      Output(p) ==
        IF p.ok THEN [threw |-> FALSE, cyclic |-> FALSE, doc |-> p.doc, spawned |-> TRUE]
        ELSE Kept(TRUE)
  IN  IF unsafePatterns(patch) THEN Kept(FALSE)
      ELSE IF ~safePattern(patch) THEN Kept(FALSE)
      ELSE IF ~jq.installed THEN Kept(TRUE)
      ELSE IF jq.exitCode # 0 THEN Kept(TRUE)
      ELSE Output(JsonParse(Trim(jq.stdout)))

\* Patch strings: .age = 3, .foo = $ENV.SECRET, .a = $x, .a = w for the
\* words the code looks for, .a = <backtick>x<backtick>, .a | @base64d,
\* .a | @html, del(.name), .inputs2 = 1, .items[0] = .age, and the example
\* of buildPatchPrompt, del(.wrong_field) | .correct_field = "value"
JqPatches ==
  {<<DOT, "age", WS, "=", WS, "3">>,
   <<DOT, "foo", WS, "=", WS, DOLLAR, "ENV", DOT, "SECRET">>,
   <<DOT, "a", WS, "=", WS, DOLLAR, "x">>,
   <<DOT, "a", WS, "=", WS, BACKTICK, "x", BACKTICK>>,
   <<DOT, "a", WS, "|", WS, ATSIGN, "base64d">>,
   <<DOT, "a", WS, "|", WS, ATSIGN, "html">>,
   <<"del", LPAREN, DOT, "name", RPAREN>>,
   <<DOT, "items", LBRACK, "0", RBRACK, WS, "=", WS, DOT, "age">>,
   <<"del", LPAREN, DOT, "wrong_field", RPAREN, WS, "|", WS,
     DOT, "correct_field", WS, "=", WS, DQ, "value", DQ>>,
   <<DOT, "inputs", "2", WS, "=", WS, "1">>}
  \cup {<<DOT, "a", WS, "=", WS, w>> :
          w \in {"input", "inputs", "system", "import", "include", "debug", "error", "halt"}}

\* What running jq can do: not installed; exit code 1; exit code 0 having
\* printed a document, a string, or nothing.
JqRuns ==
  {NoJq,
   [installed |-> TRUE, exitCode |-> 1, stdout |-> <<>>],
   [installed |-> TRUE, exitCode |-> 0, stdout |-> ValidText],
   [installed |-> TRUE, exitCode |-> 0, stdout |-> Str("John")],
   [installed |-> TRUE, exitCode |-> 0, stdout |-> <<>>]}

----------------------------------------------------------------------------
(* Predict.execute *)

MaxRoundsOf(correction) == Nullish(correction.maxRounds, DefaultMaxRounds)
MaxFieldsOf(correction) == Nullish(correction.maxFields, DefaultMaxFields)

\* s.slice(0, n)
Slice(s, n) ==
  LET k == IF n >= 0 THEN (IF n < Len(s) THEN n ELSE Len(s))
           ELSE (IF Len(s) + n > 0 THEN Len(s) + n ELSE 0)
  IN  SubSeq(s, 1, k)

\* The session id and the model of the initial request.
InitialSessionId(self, c) == IF self.newSession THEN None ELSE c.sessionId
InitialModel(self, c) == IF self.model # None THEN self.model ELSE c.defaultModel
InitialAgent(self, c) == IF self.agent # None THEN self.agent ELSE c.defaultAgent

\* The session id and the model of a repair or patch request.
CorrectionSessionId(correction, sessionId) == IF correction.model # None THEN None ELSE sessionId
CorrectionModel(correction, c) == IF correction.model # None THEN correction.model ELSE c.defaultModel
CorrectionAgent(self, c) == c.defaultAgent

\* The round count reported as if correction were enabled.
RoundsAsEnabled(correction) == MaxRoundsOf(correction)

\* The round count execute puts into the SchemaValidationError.
correctionAttempts(correction) == IF correction.enabled THEN MaxRoundsOf(correction) ELSE 0

\* execute has returned or raised / execute awaits the reply to a request.
Settled(kind, data, error, e) ==
  [pc |-> "settled", req |-> NoReq, ex |-> e,
   out |-> [kind |-> kind, data |-> data, error |-> error,
            sessionId |-> IF kind = "return" THEN e.sid ELSE None,
            raw |-> IF kind = "return" THEN e.raw ELSE <<>>]]
Awaiting(kind, request, e) == [pc |-> kind, req |-> request, ex |-> e, out |-> NoOut]

\* Correction failed or disabled: throw SchemaValidationError with
\* parseResult.errors.
Exhausted(self, e, at) ==
  Settled("throw", Undefined,
          SchemaValidationError(e.errors, correctionAttempts(self.correction), at), e)

\* correctFields with one round more than maxRounds.
PatchOneMore(self, c, e, at) ==
  IF e.round > MaxRoundsOf(self.correction) + 1
     \/ Slice(e.currentErrors, MaxFieldsOf(self.correction)) = <<>>
  THEN Exhausted(self, e, at)
  ELSE Awaiting("patch",
                Request("patch", CorrectionSessionId(self.correction, e.sid),
                        CorrectionModel(self.correction, c), CorrectionAgent(self, c)),
                [e EXCEPT !.patchCalls = @ + 1])

\* The head of the correctFields loop; leaving the loop returns null.
RoundStart(self, c, e, at) ==
  IF e.round > MaxRoundsOf(self.correction)
     \/ Slice(e.currentErrors, MaxFieldsOf(self.correction)) = <<>>
  THEN Exhausted(self, e, at)
  ELSE Awaiting("patch",
                Request("patch", CorrectionSessionId(self.correction, e.sid),
                        CorrectionModel(self.correction, c), CorrectionAgent(self, c)),
                [e EXCEPT !.patchCalls = @ + 1])

\* Field correction whenever it is enabled, on an empty object when no JSON
\* was parsed.
CorrectWithoutJson(self, c, e, at) ==
  IF self.correction.enabled
  THEN RoundStart(self, c, [e EXCEPT !.currentJson = EmptyObj,
                                     !.currentErrors = e.errors, !.round = 1], at)
  ELSE Exhausted(self, e, at)

\* Field correction if enabled and there is parsed JSON, else the throw.
CorrectOrThrow(self, c, e, at) ==
  IF self.correction.enabled /\ e.json # Undefined
  THEN RoundStart(self, c, [e EXCEPT !.currentJson = DeepCopy(e.json),
                                     !.currentErrors = e.errors, !.round = 1], at)
  ELSE Exhausted(self, e, at)

\* repairJson with one round more than maxRounds.
RepairOneMore(self, c, e, at) ==
  IF e.round > MaxRoundsOf(self.correction) + 1 THEN CorrectOrThrow(self, c, e, at)
  ELSE Awaiting("repair",
                Request("repair", CorrectionSessionId(self.correction, e.sid),
                        CorrectionModel(self.correction, c), CorrectionAgent(self, c)),
                [e EXCEPT !.repairCalls = @ + 1])

\* The head of the repairJson loop; leaving the loop returns null.
RepairStart(self, c, e, at) ==
  IF e.round > MaxRoundsOf(self.correction) THEN CorrectOrThrow(self, c, e, at)
  ELSE Awaiting("repair",
                Request("repair", CorrectionSessionId(self.correction, e.sid),
                        CorrectionModel(self.correction, c), CorrectionAgent(self, c)),
                [e EXCEPT !.repairCalls = @ + 1])

\* execute from the reply to the initial request on.
AfterInitial(self, c, text, sid, at) ==
  LET Routed(e, isJsonParseError) ==
        IF self.correction.enabled /\ isJsonParseError
        THEN RepairStart(self, c, [e EXCEPT !.round = 1], at)
        ELSE CorrectOrThrow(self, c, e, at)
      Parsed(parseResult, e) ==
        IF parseResult.ok THEN Settled("return", parseResult.data, NoError, e)
        ELSE Routed(e, \E i \in 1..Len(parseResult.errors) :
                         ErrorCode(parseResult.errors[i]) \in {"json_parse_failed", "no_json_found"})
      Replied(parseResult) ==
        Parsed(parseResult, [ExStart EXCEPT !.replied = TRUE, !.sid = sid, !.raw = text,
                                            !.errors = parseResult.errors,
                                            !.json = parseResult.json])
  IN  Replied(tryParseResponse(text, TestSig))

\* repairJson from a reply on, and execute after repairJson has returned.
AfterRepair(self, c, e, text, at) ==
  LET Reparsed(parseResult, e1) ==
        IF parseResult.ok THEN Settled("return", parseResult.data, NoError, e1)
        ELSE CorrectOrThrow(self, c, e1, at)
      Repaired(parseResult) ==
        Reparsed(parseResult, [e EXCEPT !.errors = parseResult.errors, !.json = parseResult.json])
      Extracted(repairedJson) ==
        IF ~(repairedJson.found /\ JsonParse(repairedJson.s).ok)
        THEN RepairStart(self, c, [e EXCEPT !.round = @ + 1], at)
        ELSE Repaired(tryParseResponse(repairedJson.s, TestSig))
  IN  Extracted(extractJsonString(text))

\* correctFields that gives up on the first reply without applying it.
ReplyIgnored(self, c, e, text, at) == Exhausted(self, [e EXCEPT !.round = @ + 1], at)

\* correctFields from a reply on.  applyJsonPatch raising, or
\* JSON.stringify raising on a document that contains itself, leaves
\* correctFields and execute as a TypeError.
AfterPatch(self, c, e, text, at) ==
  LET Revalidated(revalidated, e1) ==
        IF revalidated.ok THEN Settled("return", revalidated.data, NoError, e1)
        ELSE IF revalidated.errors = <<>> THEN Exhausted(self, e1, at)
        ELSE RoundStart(self, c, e1, at)
      Checked(doc, revalidated) ==
        Revalidated(revalidated,
                    [e EXCEPT !.currentJson = doc, !.currentErrors = revalidated.errors,
                              !.round = @ + 1, !.revalidated = TRUE])
      Patched(patched) ==
        IF patched.threw \/ patched.cyclic
        THEN Settled("throw", Undefined, Error("TypeError", at), e)
        ELSE Checked(patched.doc, tryParseResponse(JsonStringify(patched.doc), TestSig))
  IN  Patched(applyJsonPatch(e.currentJson, extractJsonPatch(text)))

----------------------------------------------------------------------------
(* Pipeline.run *)

\* options?.retry ?? this.config.retry ?? { maxAttempts: 1 }
EffectiveRetry(options) ==
  Nullish(options.retry, Nullish(config.retry, RetryConfig(DefaultMaxAttempts, FALSE)))

\* The catch block: TRUE to continue the loop, FALSE to break.
ShouldRetry(err, attempt, retryConfig) ==
  IF err.type = "SchemaValidationError" THEN FALSE
  ELSE attempt < retryConfig.maxAttempts
       /\ (err.type # "JsonParseError" \/ retryConfig.onParseError)

\* A string of the state as a JSON string, and back; a session id or model
\* is one atom, the empty string no atom.
StrDoc(str) == JStr(IF str = "" THEN <<>> ELSE <<str>>)
DocStr(d, key) == IF d[<<key>>].v = <<>> THEN "" ELSE d[<<key>>].v[1]

\* The state object as the JSON value JSON.stringify writes: a member that
\* is undefined (opencodeSessionId before the first step) is left out.
StepDoc(r) ==
  Obj({<<<<"attempt">>, JNum(DigitAtoms[r.attempt + 1])>>, <<<<"sessionId">>, StrDoc(r.sessionId)>>,
       <<<<"model">>, StrDoc(r.model)>>})
BaseDoc(st, subs) ==
  Obj({<<<<"sessionId">>, StrDoc(st.sessionId)>>, <<<<"startedAt">>, StrDoc(st.startedAt)>>,
       <<<<"phase">>, StrDoc(st.phase)>>, <<<<"topic">>, StrDoc(st.topic)>>,
       <<<<"steps">>, Arr([k \in 1..Len(st.steps) |-> StepDoc(st.steps[k])])>>,
       <<<<"subPipelines">>, Arr(subs)>>}
      \cup (IF st.opencodeSessionId = None THEN {}
            ELSE {<<<<"opencodeSessionId">>, StrDoc(st.opencodeSessionId)>>}))
SubRecordDoc(r) ==
  Obj({<<<<"name">>, StrDoc(r.name)>>, <<<<"sessionId">>, StrDoc(r.sessionId)>>,
       <<<<"timestamp">>, StrDoc(r.timestamp)>>, <<<<"state">>, BaseDoc(r.state, <<>>)>>})
StateDoc(st) ==
  BaseDoc(st, [k \in 1..Len(st.subPipelines) |-> SubRecordDoc(st.subPipelines[k])])

\* The state object JSON.parse yields, read member by member.
DocStep(d) ==
  [attempt |-> DigitValue(d[<<<<"attempt">>>>].v[1]), sessionId |-> DocStr(d, <<"sessionId">>),
   model |-> DocStr(d, <<"model">>)]
DocBase(d, subs) ==
  [sessionId |-> DocStr(d, <<"sessionId">>), startedAt |-> DocStr(d, <<"startedAt">>),
   phase |-> DocStr(d, <<"phase">>), topic |-> DocStr(d, <<"topic">>),
   steps |-> [k \in 1..ArrLen(d, <<<<"steps">>>>) |-> DocStep(SubDoc(d, <<<<"steps">>, IdxKey(k - 1)>>))],
   subPipelines |-> subs,
   opencodeSessionId |-> IF TagAt(d, <<<<"opencodeSessionId">>>>) = "undef" THEN None
                         ELSE DocStr(d, <<"opencodeSessionId">>)]
DocSubRecord(d) ==
  [name |-> DocStr(d, <<"name">>), sessionId |-> DocStr(d, <<"sessionId">>),
   timestamp |-> DocStr(d, <<"timestamp">>), state |-> DocBase(SubDoc(d, <<<<"state">>>>), <<>>)]
DocState(d) ==
  DocBase(d, [k \in 1..ArrLen(d, <<<<"subPipelines">>>>)
                |-> DocSubRecord(SubDoc(d, <<<<"subPipelines">>, IdxKey(k - 1)>>))])

\* writeFile(path, JSON.stringify(this.state, null, 2)) on the checkpoint
\* file; the text is written without the indentation.
saveCheckpoint(file, st) ==
  [content |-> <<JsonStringify(StateDoc(st))>>, writes |-> file.writes + 1, saved |-> <<st>>]

\* What loadCheckpoint restores from the parsed state.
RestoredSessionId(st) == IF st.opencodeSessionId \in {None, ""} THEN None ELSE st.opencodeSessionId
RestoredStepNumber(st) == Len(st.steps)

\* Pipeline.loadCheckpoint(config, state.sessionId): the pipeline it returns,
\* or null.  read tells what readFile does: "ok", "error" (it raises) or
\* "truncated" (it returns the text without its end); a file that was never
\* written makes it raise.
loadCheckpoint(file, read) ==
  LET Null == [ok |-> FALSE, pipeline |-> Pipeline(config, createState("p1"))]
      Restored(st) ==
        [ok |-> TRUE,
         pipeline |-> [Pipeline(config, st) EXCEPT !.ctx.sessionId = RestoredSessionId(st),
                                                    !.stepNumber = RestoredStepNumber(st)]]
      Parsed(p) == IF p.ok /\ IsObject(p.doc) THEN Restored(DocState(p.doc)) ELSE Null
      Content(text) == IF read = "truncated" THEN SubSeq(text, 1, Len(text) - 1) ELSE text
  IN  IF read = "error" \/ file.content = <<>> THEN Null
      ELSE Parsed(JsonParse(Content(file.content[1])))

\* The StepResult of a successful attempt.
StepResult(attempt, sessionId, model) ==
  [attempt |-> attempt, sessionId |-> IF sessionId = None THEN "" ELSE sessionId, model |-> model]

\* One iteration of the retry loop begins: module.forward is called, which
\* for a predictor issues the initial request.
StartForward(c, r) ==
  /\ ctx' = c
  /\ run' = [r EXCEPT !.fwdCalls = @ + 1]
  /\ out' = NoOut
  /\ IF r.module.kind = "custom"
     THEN pc' = "custom" /\ req' = NoReq /\ ex' = ex
     ELSE /\ pc' = "initial"
          /\ req' = Request("initial", InitialSessionId(r.module, c), InitialModel(r.module, c),
                          InitialAgent(r.module, c))
          /\ ex' = ExStart

\* After the loop: save the checkpoint, throw lastError.  st is the state at
\* that point; when the write fails, its error is what run raises.
Fail(c, r, st, write) ==
  /\ ctx' = c
  /\ run' = r
  /\ pc' = "idle"
  /\ req' = NoReq
  /\ state' = st
  /\ IF write = "ok"
     THEN /\ ckpt' = saveCheckpoint(ckpt, st)
          /\ result' = [kind |-> "raised", attempt |-> r.attempt, error |-> r.lastError]
     ELSE /\ ckpt' = ckpt
          /\ result' = [kind |-> "raised", attempt |-> r.attempt, error |-> WriteError(r.attempt)]
  /\ UNCHANGED <<ex, out>>

\* execute proceeds to its next await, or settles.
Goto(n) == pc' = n.pc /\ req' = n.req /\ ex' = n.ex /\ out' = n.out

\* Pipeline.run up to its first await.
RunBegin(module, options, write) ==
  /\ pc = "idle"
  /\ write \in WriteOutcomes(scope)
  /\ stepNumber < StepLimit(scope)
  /\ <<module, options>> \in Calls(scope)
  /\ stepNumber' = stepNumber + 1
  /\ chain' = IF options.newSession THEN None ELSE chain
  /\ LET c == [ctx EXCEPT !.sessionId = IF options.newSession THEN None ELSE @,
                          !.defaultModel = IF options.model # None THEN options.model ELSE @]
         r == [module |-> module, options |-> options, retryConfig |-> EffectiveRetry(options),
               originalModel |-> ctx.defaultModel, attempt |-> 1, lastError |-> NoError,
               fwdCalls |-> 0, plain |-> TRUE, heldAtStart |-> ctx.sessionId,
               stepsAtStart |-> Len(state.steps), writesAtStart |-> ckpt.writes]
     IN  IF 1 <= r.retryConfig.maxAttempts
         THEN StartForward(c, r) /\ result' = NoResult /\ UNCHANGED <<state, ckpt>>
         ELSE Fail(c, r, state, write)
  /\ sub' = NoSub
  /\ load' = [load EXCEPT !.kind = "none"]
  /\ UNCHANGED <<scope, call>>

\* The backend replies to the initial request of execute.
\* The context after the reply to the initial request: ctx.sessionId =
\* agentResult.sessionId.
AfterInitialReply(c, sid) == [c EXCEPT !.sessionId = sid]

InitialReply(text, sid) ==
  /\ pc = "initial"
  /\ text \in InitialTexts(scope)
  /\ sid \in ReplyIds(scope)
  /\ ctx' = AfterInitialReply(ctx, sid)
  /\ chain' = sid
  /\ Goto(AfterInitial(run.module, ctx, text, sid, run.attempt))
  /\ UNCHANGED <<scope, call, sub, load, state, stepNumber, ckpt, run, result>>

\* The context after the reply to a repair or patch request: the session id
\* of the reply is not read.
AfterCorrectionReply(c, sid) == c

\* The backend replies to a repair request.
RepairReply(text, sid) ==
  /\ pc = "repair"
  /\ text \in RepairTexts(scope)
  /\ sid \in CorrectionReplyIds
  /\ ctx' = AfterCorrectionReply(ctx, sid)
  /\ Goto(AfterRepair(run.module, ctx, ex, text, run.attempt))
  /\ UNCHANGED <<scope, call, sub, load, state, stepNumber, ckpt, run, result, chain>>

\* The backend replies to a patch request.
PatchReply(text, sid) ==
  /\ pc = "patch"
  /\ text \in PatchTexts(scope)
  /\ sid \in CorrectionReplyIds
  /\ ctx' = AfterCorrectionReply(ctx, sid)
  /\ Goto(AfterPatch(run.module, ctx, ex, text, run.attempt))
  /\ UNCHANGED <<scope, call, sub, load, state, stepNumber, ckpt, run, result, chain>>

\* runAgent rejects (exit code, timeout, abort): execute propagates the Error.
BackendFail ==
  /\ pc \in {"initial", "repair", "patch"}
  /\ pc' = "settled"
  /\ req' = NoReq
  /\ out' = [NoOut EXCEPT !.kind = "throw", !.error = Error("Error", run.attempt)]
  /\ UNCHANGED <<scope, call, sub, load, ctx, state, stepNumber, ckpt, run, ex, result, chain>>

\* forward of caller code returns or raises.
CustomSettles(o) ==
  /\ pc = "custom"
  /\ o \in CustomOutcomes
  /\ pc' = "settled"
  /\ out' = IF o = "return" THEN [NoOut EXCEPT !.kind = "return", !.data = EmptyObj]
            ELSE [NoOut EXCEPT !.kind = "throw",
                               !.error = IF o = "SchemaValidationError"
                                         THEN SchemaValidationError(<<>>, 0, run.attempt)
                                         ELSE IF o = "aborted" THEN AbortedError(run.attempt)
                                         ELSE Error(o, run.attempt)]
  /\ UNCHANGED <<scope, call, sub, load, ctx, state, stepNumber, ckpt, run, req, ex, result, chain>>

\* Pipeline.run resumes after await module.forward: the rest of the try
\* block, or the catch block and what follows the loop.
RunResume(write, writeAfter) ==
  /\ pc = "settled"
  /\ write \in WriteOutcomes(scope) /\ writeAfter \in WriteOutcomes(scope)
  /\ IF out.kind = "return"
     THEN LET c == [ctx EXCEPT !.defaultModel = run.originalModel]
              st == [state EXCEPT
                       !.steps = Append(@, StepResult(run.attempt, ctx.sessionId,
                                                      IF run.options.model # None
                                                      THEN run.options.model
                                                      ELSE config.defaultModel)),
                       !.opencodeSessionId = ctx.sessionId]
              r == [run EXCEPT !.lastError = WriteError(run.attempt)]
          IN  IF write = "ok"
              THEN /\ ctx' = c
                   /\ state' = st
                   /\ ckpt' = saveCheckpoint(ckpt, st)
                   /\ pc' = "idle"
                   /\ result' = [kind |-> "returned", attempt |-> run.attempt, error |-> NoError]
                   /\ UNCHANGED <<run, req, ex, out>>
              ELSE IF ShouldRetry(r.lastError, run.attempt, run.retryConfig)
              THEN /\ StartForward(c, [r EXCEPT !.attempt = @ + 1])
                   /\ state' = st
                   /\ UNCHANGED <<ckpt, result>>
              ELSE Fail(c, r, st, writeAfter)
     ELSE LET r == [run EXCEPT !.lastError = out.error,
                               !.plain = @ /\ out.error.type \notin {"SchemaValidationError",
                                                                     "JsonParseError"}]
          IN  IF ShouldRetry(out.error, run.attempt, run.retryConfig)
              THEN /\ StartForward(ctx, [r EXCEPT !.attempt = @ + 1])
                   /\ UNCHANGED <<state, ckpt, result>>
              ELSE Fail(ctx, r, state, write)
  /\ UNCHANGED <<scope, call, sub, load, stepNumber, chain>>

\* execute stores the session id of a reply into the context forward was
\* given: for a step of the sub-pipeline, the context of the sub-pipeline.
SubReply(parentCtx, subCtx, sid) ==
  [parent |-> parentCtx, sub |-> [subCtx EXCEPT !.sessionId = sid]]

\* runSub up to await executor(subPipeline).
RunSubBegin ==
  /\ pc = "idle"
  /\ stepNumber < MaxSteps
  /\ stepNumber' = stepNumber + 1
  /\ sub' = [status |-> "running", name |-> subConfig.name,
             ctx |-> Pipeline(subConfig, createState("p2")).ctx,
             state |-> Pipeline(subConfig, createState("p2")).state,
             stepNumber |-> Pipeline(subConfig, createState("p2")).stepNumber,
             heldAtStart |-> ctx.sessionId, subsAtStart |-> Len(state.subPipelines),
             writesAtStart |-> ckpt.writes]
  /\ pc' = "sub"
  /\ result' = NoResult
  /\ load' = [load EXCEPT !.kind = "none"]
  /\ UNCHANGED <<scope, call, ctx, state, ckpt, run, req, ex, out, chain>>

\* The executor runs a predictor on the sub-pipeline, and the run returns:
\* the reply's session id is stored, the step recorded.
SubStep(sid) ==
  /\ pc = "sub"
  /\ sub.stepNumber < MaxSubSteps
  /\ sid \in ReplyIds(scope)
  /\ ctx' = SubReply(ctx, sub.ctx, sid).parent
  /\ sub' = [sub EXCEPT !.ctx = SubReply(ctx, sub.ctx, sid).sub,
                        !.stepNumber = @ + 1,
                        !.state = [@ EXCEPT !.steps = Append(@, StepResult(1, sid, subConfig.defaultModel)),
                                            !.opencodeSessionId = sid]]
  /\ UNCHANGED <<scope, call, load, state, stepNumber, ckpt, pc, run, req, ex, out, result, chain>>

\* The executor returns: the record is pushed and the checkpoint saved.
SubReturn ==
  /\ pc = "sub"
  /\ state' = [state EXCEPT !.subPipelines =
                  Append(@, [name |-> subConfig.name,
                             sessionId |-> IF sub.ctx.sessionId = None THEN "" ELSE sub.ctx.sessionId,
                             timestamp |-> "t1", state |-> sub.state])]
  /\ ckpt' = saveCheckpoint(ckpt, state')
  /\ pc' = "idle"
  /\ sub' = [sub EXCEPT !.status = "returned"]
  /\ UNCHANGED <<scope, call, load, ctx, stepNumber, run, req, ex, out, result, chain>>

\* The executor raises: runSub has no handler.
SubThrow ==
  /\ pc = "sub"
  /\ pc' = "idle"
  /\ sub' = [sub EXCEPT !.status = "raised"]
  /\ UNCHANGED <<scope, call, load, ctx, state, stepNumber, ckpt, run, req, ex, out, result, chain>>

\* The program replaces its pipeline by Pipeline.loadCheckpoint(config,
\* state.sessionId), or keeps it when that returns null.
LoadCheckpoint(read) ==
  /\ pc = "idle"
  /\ load.count < MaxLoads
  /\ LET Returned(r) ==
           /\ load' = [kind |-> IF r.ok THEN "pipeline" ELSE "null", count |-> load.count + 1,
                       read |-> read, stepNumberBefore |-> stepNumber]
           /\ IF r.ok
              THEN /\ ctx' = r.pipeline.ctx
                   /\ state' = r.pipeline.state
                   /\ stepNumber' = r.pipeline.stepNumber
                   /\ chain' = r.pipeline.ctx.sessionId
                   /\ result' = NoResult
                   /\ sub' = NoSub
              ELSE UNCHANGED <<ctx, state, stepNumber, chain, result, sub>>
     IN  Returned(loadCheckpoint(ckpt, read))
  /\ UNCHANGED <<scope, call, ckpt, pc, run, req, ex, out>>

Init ==
  /\ scope = "pipeline"
  /\ ctx = Pipeline(config, createState("p1")).ctx
  /\ state = createState("p1")
  /\ stepNumber = 0
  /\ ckpt = NoFile
  /\ pc = "idle"
  /\ run = RunStart
  /\ req = NoReq
  /\ ex = ExStart
  /\ out = NoOut
  /\ result = NoResult
  /\ chain = None
  /\ call = NoCall
  /\ sub = NoSub
  /\ load = NoLoad

\* The caller exercises the predictor configurations.
InitPredict ==
  /\ scope = "predict"
  /\ ctx = Pipeline(config, createState("p1")).ctx
  /\ state = createState("p1")
  /\ stepNumber = 0
  /\ ckpt = NoFile
  /\ pc = "idle"
  /\ run = RunStart
  /\ req = NoReq
  /\ ex = ExStart
  /\ out = NoOut
  /\ result = NoResult
  /\ chain = None
  /\ call = NoCall
  /\ sub = NoSub
  /\ load = NoLoad

Next ==
  \/ \E c \in Calls(scope), write \in WriteOutcomes(scope) : RunBegin(c[1], c[2], write)
  \/ \E text \in InitialTexts(scope), sid \in ReplyIds(scope) : InitialReply(text, sid)
  \/ \E text \in RepairTexts(scope), sid \in CorrectionReplyIds : RepairReply(text, sid)
  \/ \E text \in PatchTexts(scope), sid \in CorrectionReplyIds : PatchReply(text, sid)
  \/ BackendFail
  \/ \E o \in CustomOutcomes : CustomSettles(o)
  \/ \E write \in WriteOutcomes(scope), writeAfter \in WriteOutcomes(scope) :
       RunResume(write, writeAfter)

Spec == Init /\ [][Next]_vars
SpecPredict == InitPredict /\ [][Next]_vars

\* The caller runs steps while the checkpoint file may fail to be written.
InitStorage ==
  /\ scope = "storage"
  /\ ctx = Pipeline(config, createState("p1")).ctx
  /\ state = createState("p1")
  /\ stepNumber = 0
  /\ ckpt = NoFile
  /\ pc = "idle"
  /\ run = RunStart
  /\ req = NoReq
  /\ ex = ExStart
  /\ out = NoOut
  /\ result = NoResult
  /\ chain = None
  /\ call = NoCall
  /\ sub = NoSub
  /\ load = NoLoad

SpecStorage == InitStorage /\ [][Next]_vars

\* A pending call of the backend, or of the forward of caller code, settles:
\* it returns or it raises.
BackendSettles ==
  \/ \E text \in InitialTexts(scope), sid \in ReplyIds(scope) : InitialReply(text, sid)
  \/ \E text \in RepairTexts(scope), sid \in CorrectionReplyIds : RepairReply(text, sid)
  \/ \E text \in PatchTexts(scope), sid \in CorrectionReplyIds : PatchReply(text, sid)
  \/ BackendFail
  \/ \E o \in CustomOutcomes : CustomSettles(o)
\* run goes on once forward has settled; its checkpoint write returns or
\* raises.
RunContinues ==
  \E write \in WriteOutcomes(scope), writeAfter \in WriteOutcomes(scope) :
    RunResume(write, writeAfter)

\* The caller runs steps under every retry member on a disk whose writes can
\* fail; each call made settles.
InitTerminates ==
  /\ scope = "terminates"
  /\ ctx = Pipeline(config, createState("p1")).ctx
  /\ state = createState("p1")
  /\ stepNumber = 0
  /\ ckpt = NoFile
  /\ pc = "idle"
  /\ run = RunStart
  /\ req = NoReq
  /\ ex = ExStart
  /\ out = NoOut
  /\ result = NoResult
  /\ chain = None
  /\ call = NoCall
  /\ sub = NoSub
  /\ load = NoLoad

\* BackendSettles is enabled exactly when a call is pending (BackendFail and
\* CustomSettles have no other guard), RunContinues exactly when forward has
\* settled.
BackendPending == pc \in {"initial", "repair", "patch", "custom"}
ForwardSettled == pc = "settled"

\* Weak fairness of BackendSettles and of RunContinues: WF_vars(A) written as
\* []<>~ENABLED <<A>>_vars \/ []<><<A>>_vars, with the two predicates above
\* for ENABLED.
SpecTerminates ==
  /\ InitTerminates /\ [][Next]_vars
  /\ ([]<>~BackendPending \/ []<><<BackendSettles>>_vars)
  /\ ([]<>~ForwardSettled \/ []<><<RunContinues>>_vars)

\* The program also runs sub-pipelines and reloads its pipeline from the
\* checkpoint.
InitResume ==
  /\ scope = "resume"
  /\ ctx = Pipeline(config, createState("p1")).ctx
  /\ state = createState("p1")
  /\ stepNumber = 0
  /\ ckpt = NoFile
  /\ pc = "idle"
  /\ run = RunStart
  /\ req = NoReq
  /\ ex = ExStart
  /\ out = NoOut
  /\ result = NoResult
  /\ chain = None
  /\ call = NoCall
  /\ sub = NoSub
  /\ load = NoLoad

NextResume ==
  \/ Next
  \/ RunSubBegin
  \/ \E sid \in ReplyIds(scope) : SubStep(sid)
  \/ SubReturn
  \/ SubThrow
  \/ \E read \in {"ok", "error", "truncated"} : LoadCheckpoint(read)

SpecResume == InitResume /\ [][NextResume]_vars

----------------------------------------------------------------------------
(* The patch engines applied to documents *)

\* The operations arrays of one to MaxOps elements.
RECURSIVE OpSeqs(_)
OpSeqs(n) ==
  IF n = 0 THEN {<<>>}
  ELSE OpSeqs(n - 1) \cup {Append(q, op) : q \in {x \in OpSeqs(n - 1) : Len(x) = n - 1}, op \in PatchOps}
OperationsArrays == {Arr(q) : q \in OpSeqs(MaxOps) \ {<<>>}}

\* A call that has its arguments and has not run yet.
Pending(fn, obj, operations, patch, jq) ==
  [NoCall EXCEPT !.fn = fn, !.obj = obj, !.operations = operations, !.patch = patch, !.jq = jq]

PatchApply ==
  /\ call.fn = "applyJsonPatch" /\ ~call.done
  /\ call' = [call EXCEPT !.done = TRUE, !.ret = applyJsonPatch(call.obj, call.operations)]
  /\ UNCHANGED <<scope, ctx, state, stepNumber, ckpt, pc, run, req, ex, out, result, chain, sub, load>>

JqApply ==
  /\ call.fn = "applyJqPatch" /\ ~call.done
  /\ LET Called(r) ==
           call' = [call EXCEPT !.done = TRUE, !.spawned = r.spawned,
                                !.ret = [threw |-> r.threw, cyclic |-> r.cyclic, doc |-> r.doc]]
     IN  Called(applyJqPatch(call.obj, call.patch, call.jq))
  /\ UNCHANGED <<scope, ctx, state, stepNumber, ckpt, pc, run, req, ex, out, result, chain, sub, load>>

\* Every call of a patch engine on the documents, operations arrays, patch
\* strings and jq behaviours above.
InitPatch ==
  /\ scope = "patch"
  /\ ctx = Pipeline(config, createState("p1")).ctx
  /\ state = createState("p1")
  /\ stepNumber = 0
  /\ ckpt = NoFile
  /\ pc = "idle"
  /\ run = RunStart
  /\ req = NoReq
  /\ ex = ExStart
  /\ out = NoOut
  /\ result = NoResult
  /\ chain = None
  /\ sub = NoSub
  /\ load = NoLoad
  /\ call \in {Pending("applyJsonPatch", obj, operations, <<>>, NoJq) :
                 obj \in Documents, operations \in OperationsArrays}
              \cup {Pending("applyJqPatch", obj, EmptyArr, patch, jq) :
                      obj \in Documents, patch \in JqPatches, jq \in JqRuns}

NextPatch == PatchApply \/ JqApply

SpecPatch == InitPatch /\ [][NextPatch]_vars

----------------------------------------------------------------------------
(* tryParseJson applied to serialised objects *)

Kinds == {"string", "number", "boolean", "array", "object", "enum", "nullable"}

\* Values offered for a field of each kind.  Those of the object kind include
\* one with a null member, those of the array kind have null elements, an
\* object with a null member and an array as elements.
ValuesOf(kind) ==
  CASE kind = "string" -> {JStr(<<"John">>), JStr(<<RBRACE>>)}
    [] kind = "number" -> {JNum("3")}
    [] kind = "boolean" -> {Leaf("bool", <<"true">>)}
    [] kind = "array" -> {Arr(<<JNum("1"), JNull, JNum("2")>>),
                          Arr(<<Arr(<<JNull, JNum("1")>>)>>),
                          Arr(<<Obj({<<ShapeKey, JNull>>})>>)}
    [] kind = "object" -> {EmptyObj, Obj({<<ShapeKey, JNum("1")>>}), Obj({<<ShapeKey, JNull>>})}
    [] kind = "enum" -> {JStr(<<"red">>)}
    [] OTHER -> {JStr(<<"John">>), JNull}

KeyReq == <<"req">>
KeyOpt == <<"opt">>

\* Every schema of a required field req and a field opt, optional or not,
\* with every object that has a value of its kind for req and a value of its
\* kind, null or nothing for opt.
ParseInputs ==
  UNION {{<<Obj({<<KeyReq, v1>>} \cup m2), <<Field(KeyReq, k1, FALSE), Field(KeyOpt, k2, o)>>>> :
            v1 \in ValuesOf(k1),
            m2 \in {{}} \cup {{<<KeyOpt, v2>>} : v2 \in ValuesOf(k2) \cup {JNull}}} :
         k1 \in Kinds, k2 \in Kinds, o \in BOOLEAN}

\* tryParseJson(JSON.stringify(obj), schema)
ParseApply ==
  /\ call.fn = "tryParseJson" /\ ~call.done
  /\ call' = [call EXCEPT !.done = TRUE,
                          !.parse = tryParseJson(JsonStringify(call.obj), call.schema)]
  /\ UNCHANGED <<scope, ctx, state, stepNumber, ckpt, pc, run, req, ex, out, result, chain, sub, load>>

InitValidate ==
  /\ scope = "validate"
  /\ ctx = Pipeline(config, createState("p1")).ctx
  /\ state = createState("p1")
  /\ stepNumber = 0
  /\ ckpt = NoFile
  /\ pc = "idle"
  /\ run = RunStart
  /\ req = NoReq
  /\ ex = ExStart
  /\ out = NoOut
  /\ result = NoResult
  /\ chain = None
  /\ sub = NoSub
  /\ load = NoLoad
  /\ call \in {[NoCall EXCEPT !.fn = "tryParseJson", !.obj = i[1], !.schema = i[2]] : i \in ParseInputs}

NextValidate == ParseApply

SpecValidate == InitValidate /\ [][NextValidate]_vars

-----------------------------------------------------------------------------
(* runAgent and the cancellation signal *)

Backends == {"opencode", "claude-code"}
RequestAborted == "Request aborted"

\* A runAgent call: options.model.backend, the signal of the request
\* ("absent", "armed" or "aborted"), sessionId and timeoutSec; pos is where
\* the call is ("called", "running", "resolved", "rejected"), proc the
\* subprocess or query ("none", "running", "killed", "closed").
AgentCall(backend, signal, sessionId, timeoutSec) ==
  [backend |-> backend, signal |-> signal, sessionId |-> sessionId, timeoutSec |-> timeoutSec,
   pos |-> "called", proc |-> "none", spawned |-> FALSE, signalAtStart |-> "absent",
   aborts |-> 0, firedInFlight |-> FALSE, error |-> "", text |-> <<>>, newSessionId |-> ""]

\* runOpencodeAgent up to the Promise it returns: the prompt file is written
\* and the process spawned; options.signal is not read.
runOpencodeAgent(c) ==
  [c EXCEPT !.pos = "running", !.proc = "running", !.spawned = TRUE,
            !.signalAtStart = c.signal,
            !.newSessionId = IF c.sessionId = None THEN "" ELSE c.sessionId]

\* runClaudeCodeAgent up to await Promise.race: a signal already aborted
\* throws before query(); else the abort listeners are added and the query
\* started.
runClaudeCodeAgent(c) ==
  IF c.signal = "aborted"
  THEN [c EXCEPT !.pos = "rejected", !.error = RequestAborted, !.signalAtStart = c.signal]
  ELSE [c EXCEPT !.pos = "running", !.proc = "running", !.spawned = TRUE,
                 !.signalAtStart = c.signal,
                 !.newSessionId = IF c.sessionId = None THEN "" ELSE c.sessionId]

runAgent(c) ==
  IF c.backend = "claude-code" THEN runClaudeCodeAgent(c) ELSE runOpencodeAgent(c)

\* The caller aborts the controller of the signal.  The first abort runs the
\* listeners added to the signal (once: true): those of runClaudeCodeAgent
\* abort the query and reject; runOpencodeAgent added none.  A later abort
\* runs nothing.
Abort(c) ==
  LET fires == c.signal = "armed" /\ c.pos = "running"
      aborted == [c EXCEPT !.signal = "aborted", !.aborts = @ + 1, !.firedInFlight = @ \/ fires]
  IN  IF fires /\ c.backend = "claude-code"
      THEN [aborted EXCEPT !.pos = "rejected", !.error = RequestAborted, !.proc = "killed"]
      ELSE aborted

\* The subprocess closes with an exit code, or the stream of the query ends
\* (code 0) or raises.
Closes(c, code, text, sid) ==
  LET closed == [c EXCEPT !.proc = "closed"]
  IN  IF c.pos # "running" THEN closed
      ELSE IF code # 0
      THEN [closed EXCEPT !.pos = "rejected",
                          !.error = IF c.backend = "opencode" THEN "OpenCode exited with code"
                                    ELSE "stream error"]
      ELSE [closed EXCEPT !.pos = "resolved", !.text = text,
                          !.newSessionId = IF sid = "" THEN @ ELSE sid]

\* The timer of timeoutSec fires: proc.kill() or q.close(), and the call
\* rejects.
TimesOut(c) == [c EXCEPT !.pos = "rejected", !.error = "Timeout", !.proc = "killed"]

AgentStart ==
  /\ call.pos = "called"
  /\ call' = runAgent(call)
  /\ UNCHANGED <<scope, ctx, state, stepNumber, ckpt, pc, run, req, ex, out, result, chain, sub, load>>

SignalAbort ==
  /\ call.signal # "absent"
  /\ call.aborts < MaxAborts
  /\ call' = Abort(call)
  /\ UNCHANGED <<scope, ctx, state, stepNumber, ckpt, pc, run, req, ex, out, result, chain, sub, load>>

AgentCloses(code, text, sid) ==
  /\ call.proc = "running"
  /\ call' = Closes(call, code, text, sid)
  /\ UNCHANGED <<scope, ctx, state, stepNumber, ckpt, pc, run, req, ex, out, result, chain, sub, load>>

AgentTimeout ==
  /\ call.pos = "running"
  /\ call.timeoutSec > 0
  /\ call' = TimesOut(call)
  /\ UNCHANGED <<scope, ctx, state, stepNumber, ckpt, pc, run, req, ex, out, result, chain, sub, load>>

\* A request on either backend, with or without a signal, a session and a
\* timeout.
InitAgent ==
  /\ scope = "agent"
  /\ call \in {AgentCall(b, sg, sid, t) :
                 b \in Backends, sg \in {"absent", "armed"}, sid \in {None, "s1"}, t \in {0, 300}}
  /\ ctx = Pipeline(config, createState("p1")).ctx
  /\ state = createState("p1")
  /\ stepNumber = 0
  /\ ckpt = NoFile
  /\ pc = "idle"
  /\ run = RunStart
  /\ req = NoReq
  /\ ex = ExStart
  /\ out = NoOut
  /\ result = NoResult
  /\ chain = None
  /\ sub = NoSub
  /\ load = NoLoad

NextAgent ==
  \/ AgentStart
  \/ SignalAbort
  \/ \E code \in {0, 1}, text \in {ValidText, NoJsonText}, sid \in {"", "s2"} :
       AgentCloses(code, text, sid)
  \/ AgentTimeout

SpecAgent == InitAgent /\ [][NextAgent]_vars

-----------------------------------------------------------------------------
(* extractJsonString applied to texts *)

\* The longest text made of single atoms that extraction is applied to.
MaxLen == 4

\* The atoms of those texts: braces, a fence, the language tag, a blank, a
\* quote and a word.
TextAtoms == {LBRACE, RBRACE, FENCE, "json", WS, DQ, "a"}

RECURSIVE AtomSeqs(_)
\* The texts of at most n atoms.
AtomSeqs(n) ==
  IF n = 0 THEN {<<>>}
  ELSE AtomSeqs(n - 1) \cup {Append(q, a) : q \in {x \in AtomSeqs(n - 1) : Len(x) = n - 1}, a \in TextAtoms}

\* Prose without braces and fences, before and after an object.
Proses == {<<>>, <<"a", WS>>, <<WS, "a">>}

\* {"a":1}, {"a":{"b":1}}, {}, {"a":"}"}, {"a":"{"}, {"a":"```"}
ObjectDocs ==
  {Obj({<<<<"a">>, JNum("1")>>}),
   Obj({<<<<"a">>, Obj({<<<<"b">>, JNum("1")>>})>>}),
   EmptyObj,
   Obj({<<<<"a">>, JStr(<<RBRACE>>)>>}),
   Obj({<<<<"a">>, JStr(<<LBRACE>>)>>}),
   Obj({<<<<"a">>, JStr(<<FENCE>>)>>})}

\* Replies: every short text, and prose, the text of an object, prose.
Responses ==
  AtomSeqs(MaxLen)
    \cup {pre \o JsonStringify(d) \o post : pre \in Proses, d \in ObjectDocs, post \in Proses}

\* "```json\n" + s + "\n```"
Fenced(s) == <<FENCE, "json", WS>> \o s \o <<WS, FENCE>>

\* A call of extractJsonString that has its argument and has not run yet.
ExtractCall(response) ==
  [fn |-> "extractJsonString", response |-> response, done |-> FALSE, ret |-> NotFound]

\* extractJsonString(response) returns; found = FALSE is null.
ExtractApply ==
  /\ call.fn = "extractJsonString" /\ ~call.done
  /\ call' = [call EXCEPT !.done = TRUE, !.ret = extractJsonString(call.response)]
  /\ UNCHANGED <<scope, ctx, state, stepNumber, ckpt, pc, run, req, ex, out, result, chain, sub, load>>

InitExtract ==
  /\ scope = "extract"
  /\ ctx = Pipeline(config, createState("p1")).ctx
  /\ state = createState("p1")
  /\ stepNumber = 0
  /\ ckpt = NoFile
  /\ pc = "idle"
  /\ run = RunStart
  /\ req = NoReq
  /\ ex = ExStart
  /\ out = NoOut
  /\ result = NoResult
  /\ chain = None
  /\ sub = NoSub
  /\ load = NoLoad
  /\ call \in {ExtractCall(t) : t \in Responses}

NextExtract == ExtractApply

SpecExtract == InitExtract /\ [][NextExtract]_vars

----------------------------------------------------------------------------
(* Properties *)

Completed == pc = "idle" /\ result.kind # "none"
Fresh == run.options.newSession \/ run.module.newSession
ExecuteSettled == pc = "settled" /\ run.module.kind = "predict"

\* C1 (bounded correction): when execute has ended for a predictor with
\* correction enabled whose initial reply parsed as JSON with field errors,
\* maxFields >= 1, every backend call was answered and no re-validation
\* succeeded, then it has issued exactly maxRounds patch requests and raises
\* SchemaValidationError; it never issues more than maxRounds.
C1_BoundedCorrection ==
  /\ (run.module.kind = "predict" => ex.patchCalls <= MaxRoundsOf(run.module.correction))
  /\ (ExecuteSettled /\ run.module.correction.enabled /\ ex.replied /\ ex.repairCalls = 0
      /\ MaxFieldsOf(run.module.correction) >= 1 /\ MaxRoundsOf(run.module.correction) >= 0
      /\ ex.json # Undefined /\ out.kind = "throw" /\ out.error.type # "Error")
     => (ex.patchCalls = MaxRoundsOf(run.module.correction)
         /\ out.error.type = "SchemaValidationError")

\* C2 (no retry after exhaustion): once an attempt of forward has raised
\* SchemaValidationError, the run has ended, forward was not called again,
\* and the error raised by run is that error.
C2_NoRetryAfterSchemaError ==
  run.lastError.type = "SchemaValidationError"
    => (Completed /\ result.kind = "raised" /\ result.error = run.lastError
        /\ run.fwdCalls = run.lastError.at)

C2_Witness ==
  /\ Completed /\ run.module.kind = "predict"
  /\ run.lastError.type = "SchemaValidationError"
  /\ run.retryConfig.maxAttempts > 1 /\ run.retryConfig.onParseError
  /\ run.fwdCalls = 1

\* C3 (retry up to maxAttempts): a completed run with maxAttempts = N >= 1
\* whose failed attempts raised neither SchemaValidationError nor
\* JsonParseError either returned on attempt k <= N after exactly k calls of
\* forward, the recorded StepResult having attempt = k, or raised the error
\* of attempt N after exactly N calls of forward.
C3_RetryUpToMaxAttempts ==
  (Completed /\ run.plain /\ run.retryConfig.maxAttempts >= 1)
    => /\ result.kind = "returned"
            => /\ run.fwdCalls = result.attempt
               /\ result.attempt <= run.retryConfig.maxAttempts
               /\ state.steps[Len(state.steps)].attempt = result.attempt
       /\ result.kind = "raised"
            => /\ run.fwdCalls = run.retryConfig.maxAttempts
               /\ result.error.at = run.retryConfig.maxAttempts
               /\ result.error = run.lastError

C3_Witness ==
  /\ Completed /\ run.plain /\ result.kind = "returned"
  /\ result.attempt = MaxAttempts /\ MaxAttempts > 1
  /\ run.lastError.type = "Error"

\* C4 (parse-error opt-in): when the latest failed attempt raised
\* JsonParseError, a further attempt was made only if onParseError is true
\* and attempts remained; with onParseError false the run ended with that
\* attempt, raising.
C4_ParseErrorOptIn ==
  run.lastError.type = "JsonParseError"
    => /\ run.fwdCalls > run.lastError.at
            => (run.retryConfig.onParseError /\ run.lastError.at < run.retryConfig.maxAttempts)
       /\ ~run.retryConfig.onParseError
            => (Completed /\ result.kind = "raised" /\ run.fwdCalls = run.lastError.at)

C4_Witness ==
  /\ Completed /\ run.lastError.type = "JsonParseError"
  /\ ~run.retryConfig.onParseError /\ run.retryConfig.maxAttempts > 1
  /\ run.fwdCalls = 1

\* C5 (checkpoint on every step outcome): when a run has completed, the
\* checkpoint file was written during the run and holds the pipeline state,
\* which after a return includes the step record of the run.
C5_CheckpointOnEveryOutcome ==
  Completed
    => /\ ckpt.writes > run.writesAtStart
       /\ ckpt.content = <<JsonStringify(StateDoc(state))>>
       /\ result.kind = "returned" => Len(state.steps) = run.stepsAtStart + 1

C5_Witness ==
  /\ Completed /\ result.kind = "raised" /\ stepNumber = 2
  /\ Len(state.steps) = 1 /\ ckpt.saved = <<state>>

\* C6 (model override does not leak): after a run that was given
\* options.model has completed, returning or raising, ctx.defaultModel is
\* what it was before the call.
C6_ModelOverrideRestored ==
  (Completed /\ run.options.model # None) => ctx.defaultModel = run.originalModel

\* C7 (session continuity): an initial request of a predictor without
\* newSession carries the session id of the latest reply to an initial
\* request on the context (none before the first reply, none after a run
\* asked for a new session), and once execute has its reply ctx.sessionId is
\* the session id of that reply.
C7_SessionContinuity ==
  /\ (pc = "initial" /\ ~run.module.newSession) => req.sessionId = chain
  /\ (run.module.kind = "predict" /\ ex.replied /\ pc \in {"repair", "patch", "settled"})
       => ctx.sessionId = ex.sid

C7_Witness ==
  /\ pc = "initial" /\ ~Fresh /\ stepNumber = 2
  /\ req.sessionId \in SessionIds /\ req.sessionId = state.opencodeSessionId

\* C8 (fresh session on request): the first backend request of a run with
\* newSession, or of a predictor configured with newSession, carries no
\* session id, and once that execute has its reply ctx.sessionId is the
\* session id of the reply.
C8_FreshSession ==
  /\ (pc = "initial" /\ run.attempt = 1 /\ Fresh) => req.sessionId = None
  /\ (ExecuteSettled /\ Fresh /\ ex.replied) => ctx.sessionId = ex.sid

C8_Witness ==
  /\ pc = "initial" /\ run.attempt = 1 /\ Fresh
  /\ run.heldAtStart \in SessionIds /\ req.sessionId = None

\* C9 (content of the terminal error): the SchemaValidationError execute
\* raises after at least one correction round has been re-validated carries
\* the errors of the last re-validation and the number of rounds that were
\* attempted (patch rounds, with or without the repair rounds).
C9_TerminalErrorContent ==
  (ExecuteSettled /\ run.module.correction.enabled /\ ex.revalidated
   /\ out.kind = "throw" /\ out.error.type = "SchemaValidationError")
    => /\ out.error.errors = ex.currentErrors
       /\ out.error.correctionAttempts \in {ex.patchCalls, ex.patchCalls + ex.repairCalls}

\* C10 (single terminal error type): execute returns data that passes
\* validation, raises SchemaValidationError, or propagates the Error of a
\* backend call.
C10_SingleTerminalErrorType ==
  ExecuteSettled
    => \/ out.kind = "return" /\ zodErrorsToFieldErrors(out.data, TestSig, 1) = <<>>
       \/ out.kind = "throw" /\ out.error.type \in {"SchemaValidationError", "Error"}

\* The elements of an operations array, in order.
Elements(operations) == [k \in 1..ArrLen(operations, <<>>) |-> SubDoc(operations, <<IdxKey(k - 1)>>)]

\* The segments of the member key of op when it is a string, else none.
Segments(op, key) == IF TagAt(op, <<key>>) = "str" THEN PathParts(op[<<key>>].v) ELSE <<>>

\* op is an add, replace, remove, move or copy operation one of whose path
\* or from segments is __proto__, constructor or prototype.
UnsafeOp(op) ==
  /\ IsObject(op) /\ TagAt(op, <<KeyOp>>) = "str"
  /\ op[<<KeyOp>>].v \in {<<"add">>, <<"replace">>, <<"remove">>, <<"move">>, <<"copy">>}
  /\ \E key \in {KeyPath, KeyFrom} :
       \E i \in 1..Len(Segments(op, key)) : Segments(op, key)[i] \in UNSAFE_KEYS

\* C11 (unsafe-key guard): applyJsonPatch on operations that each name
\* __proto__, constructor or prototype in a segment of path or from raises
\* nothing and returns the document it was given.
C11_UnsafeKeyGuard ==
  (call.fn = "applyJsonPatch" /\ call.done
   /\ \A k \in 1..Len(Elements(call.operations)) : UnsafeOp(Elements(call.operations)[k]))
    => (~call.ret.threw /\ call.ret.doc = call.obj)

\* op is voided or fails whatever the document: an unsafe segment, a segment
\* with a bracket, or no object with a string path.
Discarded(op) ==
  \/ UnsafeOp(op)
  \/ OpThrows(op)
  \/ \E key \in {KeyPath, KeyFrom} :
       \E i \in 1..Len(Segments(op, key)) :
         Includes(Segments(op, key)[i], LBRACK) \/ Includes(Segments(op, key)[i], RBRACK)

RECURSIVE Keep(_)
Keep(ops) ==
  IF ops = <<>> THEN <<>>
  ELSE (IF Discarded(Head(ops)) THEN <<>> ELSE <<Head(ops)>>) \o Keep(Tail(ops))

\* C12 (per-operation isolation): applyJsonPatch returns what applying, in
\* order, the operations that are neither voided nor failing returns.
C12_PerOperationIsolation ==
  (call.fn = "applyJsonPatch" /\ call.done)
    => (~call.ret.threw
        /\ call.ret.doc = applyJsonPatch(call.obj, Arr(Keep(Elements(call.operations)))).doc)

\* C13 (patch engines are total): applyJsonPatch and applyJqPatch raise
\* nothing and return a document.
C13_PatchEnginesTotal ==
  call.done
    => (~call.ret.threw /\ IsObject(call.ret.doc))

\* patch has a construct the jq engine must reject: a $, one of the words
\* input, inputs, system, import, include, debug, error, halt, a backtick
\* interpolation, an @-encoder, or a character that is no blank, no word
\* character and none of [ ] . " ' = | , : - { }.
Rejectable(patch) ==
  \/ Includes(patch, DOLLAR)
  \/ \E w \in {"input", "inputs", "system", "import", "include", "debug", "error", "halt"} :
       WordMatch(patch, w)
  \/ \E i \in 1..Len(patch), j \in 1..Len(patch) : i < j /\ patch[i] = BACKTICK /\ patch[j] = BACKTICK
  \/ \E i \in 1..(Len(patch) - 1) : patch[i] = ATSIGN /\ IsWord(patch[i + 1])
  \/ \E i \in 1..Len(patch) :
       patch[i] \in {FENCE, SLASH, TILDE, DOLLAR, ATSIGN, BACKTICK, LPAREN, RPAREN, "+", ";"}

\* C14 (jq patch rejection): applyJqPatch on a patch with a denylisted
\* construct or a character outside the allow-list returns the object it was
\* given and does not start jq, whatever running jq would do.
C14_JqPatchRejection ==
  (call.fn = "applyJqPatch" /\ call.done /\ Rejectable(call.patch))
    => (call.ret.doc = call.obj /\ ~call.spawned /\ ~call.ret.threw)

C14_Witness ==
  /\ call.fn = "applyJqPatch" /\ call.done /\ Follows(call.patch, DOLLAR, {"ENV"})
  /\ call.jq.installed /\ call.jq.exitCode = 0 /\ call.jq.stdout = ValidText
  /\ call.ret.doc = call.obj /\ call.obj # JsonParse(call.jq.stdout).doc

\* C15 (cancellation is never retried): once an attempt has failed with the
\* aborted error of a backend call, forward is not called again, and the run
\* ends raising that error.
C15_CancellationNotRetried ==
  run.lastError.message = "Request aborted"
    => (Completed /\ result.kind = "raised" /\ result.error = run.lastError
        /\ run.fwdCalls = run.lastError.at)

\* C16 (sub-pipeline isolation and audit): from the call of runSub on, the
\* session id of the parent's context is what it was at the call, whatever
\* replies the steps of the sub-pipeline get; when runSub has returned, the
\* parent's state.subPipelines has one record more, the new record holds the
\* sub-pipeline's name, the session id of its context, a timestamp and its
\* state, and the checkpoint file was written with the parent's state.
C16_SubPipelineIsolation ==
  /\ sub.status # "none" => ctx.sessionId = sub.heldAtStart
  /\ sub.status = "returned"
       => /\ Len(state.subPipelines) = sub.subsAtStart + 1
          /\ state.subPipelines[Len(state.subPipelines)].name = subConfig.name
          /\ state.subPipelines[Len(state.subPipelines)].sessionId
               = (IF sub.ctx.sessionId = None THEN "" ELSE sub.ctx.sessionId)
          /\ state.subPipelines[Len(state.subPipelines)].timestamp # ""
          /\ state.subPipelines[Len(state.subPipelines)].state = sub.state
          /\ ckpt.writes = sub.writesAtStart + 1
          /\ ckpt.content = <<JsonStringify(StateDoc(state))>>

C16_Witness ==
  /\ sub.status = "returned" /\ pc = "idle"
  /\ sub.heldAtStart = "s1" /\ ctx.sessionId = "s1"
  /\ sub.ctx.sessionId = "" /\ Len(sub.state.steps) = 1
  /\ Len(state.subPipelines) = 1

\* C17 (checkpoint round-trip): a pipeline returned by loadCheckpoint has
\* the state that saveCheckpoint serialized (base fields, steps,
\* subPipelines, the field of the application), its step counter is the
\* number of steps of that state, and its context session id is the saved
\* opencodeSessionId when that is a non-empty string and undefined when it
\* is the empty string or absent; loadCheckpoint returns null exactly when
\* the file was never written, cannot be read or does not parse.
C17_CheckpointRoundTrip ==
  /\ load.kind = "pipeline"
       => /\ ckpt.saved = <<state>>
          /\ stepNumber = Len(state.steps)
          /\ ctx.sessionId = (IF state.opencodeSessionId = "" THEN None ELSE state.opencodeSessionId)
  /\ load.kind # "none"
       => (load.kind = "null" <=> (ckpt.content = <<>> \/ load.read # "ok"))

C17_Witness ==
  /\ load.kind = "pipeline"
  /\ Len(state.steps) = 1 /\ Len(state.subPipelines) = 1
  /\ load.stepNumberBefore = 2 /\ stepNumber = 1
  /\ ctx.sessionId = "s1" /\ state.opencodeSessionId = "s1"

\* C17 as stated: the context session id of the loaded pipeline is the
\* saved opencodeSessionId, whatever it is.
C17_AsStated ==
  load.kind = "pipeline"
    => /\ ckpt.saved = <<state>>
       /\ stepNumber = Len(state.steps)
       /\ ctx.sessionId = state.opencodeSessionId

\* The initial reply parsed as JSON that lacks the required field age, no
\* repair was needed, and execute awaits the reply to correction round 1.
AwaitsRoundOne ==
  /\ pc = "patch" /\ run.module.kind = "predict"
  /\ ex.replied /\ ex.repairCalls = 0 /\ ex.patchCalls = 1 /\ ex.round = 1
  /\ IsObject(ex.json) /\ <<"age">> \notin KeysAt(ex.json, <<>>)
  /\ \E i \in 1..Len(ex.errors) : ex.errors[i].path = <<"age">>

\* C18 (one-round repair of a missing field): when the initial reply parsed
\* as JSON without the required field age and the reply to correction round 1
\* is a JSON Patch adding age with a number, execute returns the fields of
\* the initial reply plus age, having issued the initial request and one
\* patch request and no other.
C18_OneRoundRepair ==
  [][(AwaitsRoundOne /\ \E sid \in CorrectionReplyIds : PatchReply(AddAgePatch, sid))
       => /\ pc' = "settled" /\ out'.kind = "return"
          /\ out'.data = PutDoc(ex.json, <<<<"age">>>>, JNum("3"))
          /\ ex'.patchCalls = 1 /\ ex'.repairCalls = 0]_vars

C18_Witness ==
  /\ ExecuteSettled /\ out.kind = "return"
  /\ ex.replied /\ ex.repairCalls = 0 /\ ex.patchCalls = 1
  /\ <<"age">> \notin KeysAt(ex.json, <<>>)
  /\ out.data = PutDoc(ex.json, <<<<"age">>>>, JNum("3"))
  /\ KeysAt(out.data, <<>>) = {<<"name">>, <<"age">>}

\* The initial reply held no JSON and no repair reply has yielded parseable
\* JSON: the errors of the initial parse are still the current ones.
NoJsonSoFar ==
  /\ run.module.kind = "predict" /\ run.module.correction.enabled
  /\ ex.replied /\ ex.errors = <<NoJsonError>> /\ ex.json = Undefined

\* C19 (JSON-repair phase on missing JSON): after an initial reply without
\* JSON, a correcting predictor with maxRounds >= 1 has issued a repair
\* request; it never issues more than maxRounds; and when execute has ended
\* with every backend call answered and no repair reply yielding parseable
\* JSON, it has issued exactly maxRounds repair requests and no patch
\* request, and raises SchemaValidationError whose errors include the
\* no-JSON-found error.
C19_JsonRepairPhase ==
  /\ run.module.kind = "predict" => ex.repairCalls <= MaxRoundsOf(run.module.correction)
  /\ (NoJsonSoFar /\ MaxRoundsOf(run.module.correction) >= 1) => ex.repairCalls >= 1
  /\ (NoJsonSoFar /\ ExecuteSettled /\ out.error.type # "Error")
       => /\ ex.repairCalls = MaxRoundsOf(run.module.correction)
          /\ ex.patchCalls = 0
          /\ out.kind = "throw" /\ out.error.type = "SchemaValidationError"
          /\ \E i \in 1..Len(out.error.errors) : ErrorCode(out.error.errors[i]) = "no_json_found"

C19_Witness ==
  /\ NoJsonSoFar /\ ExecuteSettled
  /\ MaxRoundsOf(run.module.correction) = DefaultMaxRounds
  /\ ex.repairCalls = DefaultMaxRounds /\ ex.patchCalls = 0
  /\ out.error.type = "SchemaValidationError" /\ out.error.errors = <<NoJsonError>>

\* C20 (correction can be disabled): a predictor configured with
\* correction: false issues no repair and no patch request, so the initial
\* request is the only one, whatever the reply; when the reply does not
\* validate, execute raises SchemaValidationError with the errors of that
\* reply and correctionAttempts = 0.
C20_CorrectionDisabled ==
  (run.module.kind = "predict" /\ ~run.module.correction.enabled)
    => /\ ex.repairCalls = 0 /\ ex.patchCalls = 0
       /\ pc \notin {"repair", "patch"}
       /\ ex.replied => pc \in {"settled", "idle"}
       /\ (ExecuteSettled /\ ex.replied /\ ex.errors # <<>>)
            => /\ out.kind = "throw" /\ out.error.type = "SchemaValidationError"
               /\ out.error.correctionAttempts = 0
               /\ out.error.errors = ex.errors

C20_Witness ==
  /\ ExecuteSettled /\ ~run.module.correction.enabled
  /\ ex.replied /\ ex.json # Undefined /\ ex.errors # <<>>
  /\ out.error.type = "SchemaValidationError" /\ out.error.correctionAttempts = 0

\* The object satisfies the schema: every field is present with a value its
\* type accepts, or is optional and absent; there are no other members.
Satisfies(obj, schema) ==
  /\ IsObject(obj)
  /\ KeysAt(obj, <<>>) \subseteq {schema[i].name : i \in 1..Len(schema)}
  /\ \A i \in 1..Len(schema) :
       IF TagAt(obj, <<schema[i].name>>) = "undef" THEN schema[i].optional
       ELSE Accepts(schema[i].type, SubDoc(obj, <<schema[i].name>>))

\* C21 (validation round-trip): tryParseJson on the JSON text of an object
\* that satisfies the schema returns ok with data equal to the object.
C21_ValidationRoundTrip ==
  (call.fn = "tryParseJson" /\ call.done /\ Satisfies(call.obj, call.schema))
    => (call.parse.ok /\ call.parse.data = call.obj)

\* The paths of d that hold null as an element of an array / as a member of
\* an object.
NullElements(d) ==
  {p \in DOMAIN d : d[p].t = "null" /\ Len(p) >= 1 /\ d[SubSeq(p, 1, Len(p) - 1)].t = "arr"}
NullMembers(d) ==
  {p \in DOMAIN d : d[p].t = "null" /\ Len(p) >= 1 /\ d[SubSeq(p, 1, Len(p) - 1)].t = "obj"}

\* C22 (null-to-absent): in what tryParseJson validates, no object has a
\* null member, at any depth; a reply with null for an optional field and a
\* valid required field validates and the data has no such key; and every
\* null element of an array of the reply is still null at its position.
C22_NullToAbsent ==
  (call.fn = "tryParseJson" /\ call.done /\ call.parse.json # Undefined)
    => /\ NullMembers(call.parse.json) = {}
       /\ (/\ TagAt(call.obj, <<KeyOpt>>) = "null" /\ call.schema[2].optional
           /\ Accepts(call.schema[1].type, SubDoc(call.obj, <<KeyReq>>))
           /\ TagAt(call.obj, <<KeyReq>>) # "null")
            => (call.parse.ok /\ KeyOpt \notin KeysAt(call.parse.data, <<>>))
       /\ \A p \in NullElements(call.obj) : TagAt(call.parse.json, p) = "null"

\* C23 (same-session correction): every repair and patch request carries
\* the session id of the reply to the initial request of that execute,
\* unless a correction model is configured; then it carries no session id
\* and names the correction model.
C23_SameSessionCorrection ==
  (pc \in {"repair", "patch"})
    => /\ req.kind = pc /\ ex.replied
       /\ IF run.module.correction.model # None
          THEN req.sessionId = None /\ req.model = run.module.correction.model
          ELSE req.sessionId = ex.sid

C23_Witness ==
  /\ pc = "patch" /\ ex.repairCalls >= 1 /\ ex.patchCalls >= 1
  /\ run.module.correction.model = None
  /\ req.sessionId \in SessionIds /\ req.sessionId = ex.sid

\* C24 (phase ordering): a patch request is pending only when execute holds
\* a parsed JSON object; a repair request is pending only before any patch
\* request of that execute and only while no JSON has parsed.
C24_PhaseOrdering ==
  /\ pc = "patch" => (ex.json # Undefined /\ IsObject(ex.json))
  /\ pc = "repair" => (ex.patchCalls = 0 /\ ex.json = Undefined)

C24_Witness ==
  /\ pc = "patch" /\ ex.repairCalls = 2 /\ ex.patchCalls = 1
  /\ IsObject(ex.json) /\ ex.errors # <<>>

\* The backend requests execute has issued so far.
Requests == (IF pc = "initial" \/ ex.replied THEN 1 ELSE 0) + ex.repairCalls + ex.patchCalls

\* JSON.parse succeeds on what extractJsonString finds in the text.
ParseableJson(text) ==
  extractJsonString(text).found /\ JsonParse(extractJsonString(text).s).ok

\* C25 (overall request bound): an execute with correction enabled issues
\* at most 1 + 2 * maxRounds backend requests, and at most 1 + maxRounds
\* when the initial reply holds parseable JSON.
C25_RequestBound ==
  (run.module.kind = "predict" /\ run.module.correction.enabled)
    => /\ Requests <= 1 + 2 * MaxRoundsOf(run.module.correction)
       /\ (ex.replied /\ ParseableJson(ex.raw))
            => Requests <= 1 + MaxRoundsOf(run.module.correction)

C25_Witness ==
  /\ ExecuteSettled /\ run.module.correction.enabled
  /\ MaxRoundsOf(run.module.correction) = DefaultMaxRounds
  /\ Requests = 1 + 2 * DefaultMaxRounds

\* C26 (correction round-trips do not move the session): from the reply to
\* the initial request on, through every repair and patch reply and when
\* execute has ended, returning or raising, ctx.sessionId is the session id
\* of that reply; a returned result carries that session id and the text of
\* the initial reply.
C26_SessionNotMoved ==
  (run.module.kind = "predict" /\ ex.replied /\ pc \in {"repair", "patch", "settled"})
    => /\ ctx.sessionId = chain /\ chain \notin CorrectionReplyIds
       /\ (pc = "settled" /\ out.kind = "return")
            => (out.sessionId = chain /\ out.raw = ex.raw)

C26_Witness ==
  /\ ExecuteSettled /\ out.kind = "return"
  /\ ex.repairCalls >= 1 /\ ex.patchCalls >= 1
  /\ run.module.correction.model # None
  /\ ctx.sessionId = chain /\ out.sessionId = chain /\ chain \in SessionIds
  /\ out.raw = MalformedText

\* C27 (correction uses the same effective model and agent): without a
\* correction model, a repair or patch request names the model and the agent
\* of the initial request of that execute: those of the predictor if it has
\* its own, else those of the context.
C27_SameModelAndAgent ==
  (pc \in {"repair", "patch"} /\ run.module.correction.model = None)
    => /\ req.model = InitialModel(run.module, ctx)
       /\ req.agent = InitialAgent(run.module, ctx)

\* C28 (step history is append-only and exact): when a run call has ended,
\* whatever the module and the checkpoint writes did, state.steps has exactly
\* one record more than when the call began if the call returned, and
\* exactly the records it had if the call raised.
C28_StepHistoryExact ==
  Completed
    => /\ result.kind = "returned" => Len(state.steps) = run.stepsAtStart + 1
       /\ result.kind = "raised" => Len(state.steps) = run.stepsAtStart

\* C29 (persisted session matches the live session): when a run call has
\* ended, returning or raising, and has written the checkpoint, the
\* opencodeSessionId of the written state is the sessionId the context held
\* at the write.
C29_PersistedSessionIsLive ==
  (Completed /\ ckpt.writes > run.writesAtStart)
    => ckpt.saved[1].opencodeSessionId = ctx.sessionId

\* C30 (every step is attempted): when a run call has ended, under every
\* retry member, forward was called at least once, and what a raising call
\* raised is the error of the last call of forward.
C30_EveryStepAttempted ==
  Completed
    => /\ run.fwdCalls >= 1
       /\ result.kind = "raised"
            => (result.error = run.lastError /\ run.lastError.at = run.fwdCalls)

BackendPcs == {"initial", "repair", "patch"}

C33_CancellationAborts ==
  /\ (call.pos # "called" /\ call.signalAtStart = "aborted")
       => (call.pos = "rejected" /\ call.error = RequestAborted /\ ~call.spawned)
  /\ call.firedInFlight
       => (call.pos = "rejected" /\ call.error = RequestAborted /\ call.proc = "killed")

\* applyJsonPatch was applied to one operation, of one of kinds, that is an
\* object with a string path.
SingleOp(kinds) ==
  /\ call.fn = "applyJsonPatch" /\ call.done
  /\ Len(Elements(call.operations)) = 1
  /\ ~OpThrows(Elements(call.operations)[1])
  /\ TagAt(Elements(call.operations)[1], <<KeyOp>>) = "str"
  /\ Elements(call.operations)[1][<<KeyOp>>].v \in kinds
TheOp == Elements(call.operations)[1]
\* The path of keys a sequence of segments names, each segment unescaped.
RECURSIVE Unescaped(_)
Unescaped(parts) ==
  IF parts = <<>> THEN <<>>
  ELSE <<unescapeJsonPointerSegment(Head(parts))>> \o Unescaped(Tail(parts))

\* C34 (JSON Pointer unescaping): after one add or replace whose path is one
\* safe segment, applied to an object, the key that is the unescaped segment
\* holds the value of the operation.
C34_PointerUnescaping ==
  (SingleOp({<<"add">>, <<"replace">>})
   /\ Len(Segments(TheOp, KeyPath)) = 1 /\ ~Blocked(Segments(TheOp, KeyPath)[1]))
    => SubDoc(call.ret.doc, Unescaped(Segments(TheOp, KeyPath))) = SubDoc(TheOp, <<KeyValue>>)

\* The path of keys in d that the first k segments of parts walk to: an
\* array is entered by the index the segment parses to.
RECURSIVE WalkTo(_, _, _)
WalkTo(d, parts, k) ==
  IF k = 0 THEN <<>>
  ELSE LET pre == WalkTo(d, parts, k - 1)
       IN  IF TagAt(d, pre) = "arr" THEN pre \o <<IdxKey(parseInt(parts[k]).n)>>
           ELSE pre \o <<parts[k]>>
\* Every value of d that the segments before the last walk through is an
\* object, or an array entered by an index that is not negative; a member
\* that is missing ends the walk.
RECURSIVE Traversable(_, _, _, _)
Traversable(d, parts, i, cur) ==
  IF TagAt(d, cur) = "undef" THEN TRUE
  ELSE IF TagAt(d, cur) = "obj"
       THEN i = Len(parts) \/ Traversable(d, parts, i + 1, cur \o <<parts[i]>>)
  ELSE IF TagAt(d, cur) = "arr"
       THEN /\ ~parseInt(parts[i]).nan /\ parseInt(parts[i]).n >= 0
            /\ (i = Len(parts) \/ Traversable(d, parts, i + 1, cur \o <<IdxKey(parseInt(parts[i]).n)>>))
  ELSE FALSE
\* One add or replace was applied whose path has only safe segments.
SafeSet ==
  /\ SingleOp({<<"add">>, <<"replace">>})
  /\ Segments(TheOp, KeyPath) # <<>>
  /\ \A i \in 1..Len(Segments(TheOp, KeyPath)) : ~Blocked(Segments(TheOp, KeyPath)[i])
\* Reading the path of the operation in the result yields its value, and
\* each member on the path that the document lacked is an array when the
\* next segment is all digits and an object otherwise.
SetThenRead ==
  LET parts == Segments(TheOp, KeyPath)
      after == call.ret.doc
  IN  /\ getValueAtPath(after, parts) = SubDoc(TheOp, <<KeyValue>>)
      /\ \A k \in 1..(Len(parts) - 1) :
            TagAt(call.obj, WalkTo(after, parts, k)) = "undef"
              => TagAt(after, WalkTo(after, parts, k))
                   = (IF AllDigits(parts[k + 1]) THEN "arr" ELSE "obj")

IsTest(op) == IsObject(op) /\ TagAt(op, <<KeyOp>>) = "str" /\ op[<<KeyOp>>].v = <<"test">>
\* The operations array without its test operations.
WithoutTests(operations) == Arr(SelectSeq(Elements(operations), LAMBDA op : ~IsTest(op)))
\* The value of test operation op differs from the value at its path in d.
Mismatch(d, op) == ~TestMatches(getValueAtPath(d, Segments(op, KeyPath)), SubDoc(op, <<KeyValue>>))

RECURSIVE Resolves(_, _, _, _)
Resolves(d, parts, i, cur) ==
  LET part == parts[i]
      child == IF TagAt(d, cur) = "arr" THEN cur \o <<IdxKey(parseInt(part).n)>> ELSE cur \o <<part>>
      here == IF TagAt(d, cur) = "obj" THEN cur \o <<part>> \in DOMAIN d
              ELSE IF TagAt(d, cur) = "arr" THEN AllDigits(part) /\ parseInt(part).n < ArrLen(d, cur)
              ELSE FALSE
  IN  here /\ (i = Len(parts) \/ Resolves(d, parts, i + 1, child))

\* C37 (remove of a non-existent target): one remove whose path names no
\* existing object key and no index within an array (a missing key, an index
\* out of range, a segment that is no number or is negative on an array)
\* returns the document unchanged.
C37_RemoveMissingNoOp ==
  (SingleOp({<<"remove">>})
   /\ Segments(TheOp, KeyPath) # <<>>
   /\ ~Resolves(call.obj, Segments(TheOp, KeyPath), 1, <<>>))
    => call.ret.doc = call.obj

\* patch is built only from field access (.name), array indexing ([0]),
\* assignment (=) of a field, a number or a string, del(...) and pipes (|),
\* and names no field input, inputs, system, import, include, debug, error
\* or halt.
SupportedGrammar(patch) ==
  /\ patch # <<>>
  /\ \A i \in 1..Len(patch) :
        \/ patch[i] \in {DOT, WS, "=", "|", DQ, LBRACK, RBRACK}
        \/ patch[i] = LPAREN /\ i > 1 /\ patch[i - 1] = "del"
        \/ patch[i] = RPAREN /\ \E j \in 1..(i - 1) : patch[j] = LPAREN
        \/ patch[i] = "del" /\ i < Len(patch) /\ patch[i + 1] = LPAREN
        \/ IsWord(patch[i]) /\ i > 1 /\ (patch[i - 1] \in {DOT, DQ, LBRACK} \/ IsDigit(patch[i]))
  /\ ~\E w \in {"input", "inputs", "system", "import", "include", "debug", "error", "halt"} :
        WordMatch(patch, w)

\* C38 (the jq safety filter accepts the supported grammar): applyJqPatch on
\* a patch built only from field access, indexing, assignment, del(...) and
\* pipes passes the denylist and the allow-list and is handed to jq.
C38_SupportedGrammarAccepted ==
  (call.fn = "applyJqPatch" /\ call.done /\ SupportedGrammar(call.patch)) => call.spawned

Extracted == call.fn = "extractJsonString" /\ call.done
\* The number of atoms a among t[i..j].
Count(t, a, i, j) == Cardinality({k \in i..j : t[k] = a})
\* t[i..j] runs from a brace to the brace at which the depth first returns
\* to zero.
FirstBalanced(t, i, j) ==
  /\ t[i] = LBRACE /\ t[j] = RBRACE
  /\ Count(t, LBRACE, i, j) = Count(t, RBRACE, i, j)
  /\ \A m \in i..(j - 1) : Count(t, LBRACE, i, m) > Count(t, RBRACE, i, m)
\* A fenced block opens at the fence at f with its brace at k and closes at
\* the fence at m: a fence, an optional json, blanks, a brace, and the next
\* fence after the brace.
FencedBlock(t, f, k, m) ==
  /\ t[f] = FENCE /\ t[k] = LBRACE /\ t[m] = FENCE /\ f < k /\ k < m
  /\ \A i \in (f + 1)..(k - 1) : t[i] = WS \/ (i = f + 1 /\ t[i] = "json")
  /\ \A i \in (k + 1)..(m - 1) : t[i] # FENCE
\* What the extraction algorithm returns for t, as the claim words it.
ExtractionRule(t, ret) ==
  LET Idx == 1..Len(t)
      blocks == {b \in Idx \X Idx \X Idx : FencedBlock(t, b[1], b[2], b[3])}
      first == CHOOSE b \in blocks : \A c \in blocks : b[1] <= c[1]
      start == CHOOSE i \in Idx : t[i] = LBRACE /\ \A j \in 1..(i - 1) : t[j] # LBRACE
      ends == {j \in Idx : Includes(t, LBRACE) /\ j >= start /\ FirstBalanced(t, start, j)}
  IN  IF blocks # {} THEN ret = [found |-> TRUE, s |-> Trim(SubSeq(t, first[2], first[3] - 1))]
      ELSE IF ends # {} THEN ret = [found |-> TRUE, s |-> SubSeq(t, start, CHOOSE j \in ends : TRUE)]
      ELSE ret = NotFound
\* The response is prose, the text of the object d, prose.
ProseAround(d) == \E pre \in Proses, post \in Proses : call.response = pre \o JsonStringify(d) \o post

\* C39 (extraction algorithm): extractJsonString returns the trimmed interior
\* of the first fenced block that opens with a brace if there is one,
\* otherwise the span from the first brace to the brace at which the depth
\* first returns to zero, and null otherwise; and for prose, one valid JSON
\* object, prose it returns exactly the text of the object.
C39_ExtractionAlgorithm ==
  Extracted =>
    /\ ExtractionRule(call.response, call.ret)
    /\ \A d \in ObjectDocs :
          ProseAround(d) => call.ret = [found |-> TRUE, s |-> JsonStringify(d)]
\* The first half of C39 alone.
C39_RuleOnly == Extracted => ExtractionRule(call.response, call.ret)

\* C40 (extraction is idempotent under re-fencing): when extractJsonString
\* returns a string s for a text, extractJsonString of s wrapped in a json
\* code fence returns s.
C40_RefencingIdempotent ==
  (Extracted /\ call.ret.found) => extractJsonString(Fenced(call.ret.s)) = call.ret

====
